---- MODULE Spec2Model ----
(***************************************************************************)
(* Model of the aggregation engine of evaluacion-dashboard-backend: the    *)
(* in-memory evaluation repository, the Average Calculator                 *)
(* (CalcularPromedioProfesorUseCase) and the Recommendation Engine         *)
(* (ObtenerPropuestaMejoraUseCase).                                        *)
(*                                                                         *)
(* Conventions                                                             *)
(*  - An Optional[T] is a set with at most one element: None is {} and a   *)
(*    present value v is {v}.                                              *)
(*  - A str that the code inspects character by character (a period, a     *)
(*    question text, a keyword) is a sequence of one-character strings; a  *)
(*    str that is only compared for equality is a TLA+ string.             *)
(*  - A float is an exact rational <<n, d>> in lowest terms with d > 0.    *)
(*    Ratings are counted in tenths, so 4.0 is <<40, 1>>.                  *)
(*    statistics.mean sums exactly and rounds once; the model keeps the    *)
(*    exact quotient.                                                      *)
(*  - A dict is read in insertion order, so it is a sequence of keys       *)
(*    without repetition together with a function on them.                 *)
(***************************************************************************)
EXTENDS Integers, Sequences, FiniteSets, TLC

VARIABLES
    evaluaciones,       \* the loaded collection the evaluation repository is built from
    solicitud,          \* the call in progress
    resultado,          \* what the call in progress has produced
    _evaluacion_repo,   \* the module global of api/dependencies.py: None or a repository
    _pregunta_repo,     \* the module global of api/dependencies.py: None or a repository
    hilos,              \* the threads inside the providers of api/dependencies.py
    cargas,             \* how many times EvaluacionDataLoader.load_all has returned the data
    memoria             \* the list objects the repositories hold

vars == <<evaluaciones, solicitud, resultado, _evaluacion_repo, _pregunta_repo,
          hilos, cargas, memoria>>

\* the process around the repositories: the singletons, the threads, the lists
proceso == <<_evaluacion_repo, _pregunta_repo, hilos, cargas, memoria>>

(***************************************************************************)
(* Bounds of the model.                                                    *)
(***************************************************************************)
MaxEvaluaciones == 2
MaxRespuestas == 2

(***************************************************************************)
(* Generic helpers on sequences.                                           *)
(***************************************************************************)
Range(s) == {s[i] : i \in DOMAIN s}

RECURSIVE Concat(_)
Concat(ss) == IF ss = <<>> THEN <<>> ELSE Head(ss) \o Concat(Tail(ss))

\* [F(x) for x in s], as a list
Map(s, F(_)) == SubSeq([i \in DOMAIN s |-> F(s[i])], 1, Len(s))

\* keys of a dict filled by appending the items of s in order: each key once,
\* in order of first appearance
RECURSIVE Claves(_)
Claves(s) ==
    IF s = <<>> THEN <<>>
    ELSE LET r == Claves(SubSeq(s, 1, Len(s) - 1))
             k == s[Len(s)]
         IN IF k \in Range(r) THEN r ELSE Append(r, k)

(***************************************************************************)
(* Exact arithmetic for float values.                                      *)
(***************************************************************************)
RECURSIVE GCD(_, _)
GCD(a, b) == IF b = 0 THEN a ELSE GCD(b, a % b)

Rat(n, d) == IF n = 0 THEN <<0, 1>> ELSE <<n \div GCD(n, d), d \div GCD(n, d)>>

RatInt(n) == <<n, 1>>
RatAdd(p, q) == Rat(p[1] * q[2] + q[1] * p[2], p[2] * q[2])
RatLt(p, q) == p[1] * q[2] < q[1] * p[2]
RatLe(p, q) == p[1] * q[2] <= q[1] * p[2]

RECURSIVE RatSum(_)
RatSum(s) == IF s = <<>> THEN <<0, 1>> ELSE RatAdd(Head(s), RatSum(Tail(s)))

\* statistics.mean of a non-empty list
mean(s) == LET t == RatSum(s) IN Rat(t[1], t[2] * Len(s))

Cero == <<0, 1>>

(***************************************************************************)
(* Categoria: the closed enumeration, its labels and short labels.         *)
(***************************************************************************)
Categoria ==
    { "PLANEACION", "CONDUCCION", "EVALUACION_APRENDIZAJE", "COMPONENTE_PERSONAL",
      "COMPORTAMIENTO", "ENSENANZA_APRENDIZAJE", "EVALUACION", "POSGRADO",
      "ESTRUCTURA_AULA_VIRTUAL", "COMENTARIOS" }

COMENTARIOS == "COMENTARIOS"

\* Categoria.value
CategoriaValue ==
    [ PLANEACION |-> "PLANEACIÓN DEL PROCESO ENSEÑANZA - APRENDIZAJE - EVALUACIÓN",
      CONDUCCION |-> "CONDUCCIÓN DEL PROCESO ENSEÑANZA-APRENDIZAJE",
      EVALUACION_APRENDIZAJE |-> "EVALUACIÓN DEL APRENDIZAJE",
      COMPONENTE_PERSONAL |-> "COMPONENTE PERSONAL",
      COMPORTAMIENTO |-> "COMPORTAMIENTO",
      ENSENANZA_APRENDIZAJE |-> "ENSEÑANZA-APRENDIZAJE",
      EVALUACION |-> "EVALUACIÓN",
      POSGRADO |-> "POSGRADO",
      ESTRUCTURA_AULA_VIRTUAL |-> "ESTRUCTURA DE AULA VIRTUAL",
      COMENTARIOS |-> "COMENTARIOS" ]

descripcion_corta ==
    [ PLANEACION |-> "Planeación",
      CONDUCCION |-> "Conducción",
      EVALUACION_APRENDIZAJE |-> "Eval. Aprendizaje",
      COMPONENTE_PERSONAL |-> "Personal",
      COMPORTAMIENTO |-> "Comportamiento",
      ENSENANZA_APRENDIZAJE |-> "Enseñanza-Aprendizaje",
      EVALUACION |-> "Evaluación",
      POSGRADO |-> "Posgrado",
      ESTRUCTURA_AULA_VIRTUAL |-> "Aula Virtual",
      COMENTARIOS |-> "Comentarios" ]

\* the short labels in the order of Python's str comparison
CortasOrdenadas ==
    << "Aula Virtual", "Comentarios", "Comportamiento", "Conducción",
       "Enseñanza-Aprendizaje", "Eval. Aprendizaje", "Evaluación", "Personal",
       "Planeación", "Posgrado" >>

\* the labels in the order of Python's str comparison (by code point)
EtiquetasOrdenadas ==
    << "COMENTARIOS", "COMPONENTE PERSONAL", "COMPORTAMIENTO",
       "CONDUCCIÓN DEL PROCESO ENSEÑANZA-APRENDIZAJE", "ENSEÑANZA-APRENDIZAJE",
       "ESTRUCTURA DE AULA VIRTUAL", "EVALUACIÓN", "EVALUACIÓN DEL APRENDIZAJE",
       "PLANEACIÓN DEL PROCESO ENSEÑANZA - APRENDIZAJE - EVALUACIÓN", "POSGRADO" >>

(***************************************************************************)
(* The loaded data: question catalog, and the values a loaded evaluation   *)
(* can carry.                                                              *)
(***************************************************************************)
\* the catalog of preguntas.csv, in file order; every Evaluacion shares these
\* Pregunta objects (EvaluacionCSVParser._preguntas_dict), so a code has one
\* category and one text
Catalogo ==
    << [codigo |-> "P147", categoria |-> "CONDUCCION",
        texto |-> <<"S","o","c","i","a","l","i","z","a"," ","e","l"," ","P","r","o","g","r","a","m","a">>],
       [codigo |-> "P148", categoria |-> "COMPONENTE_PERSONAL",
        texto |-> <<"E","s"," ","p","u","n","t","u","a","l">>],
       [codigo |-> "P149", categoria |-> "CONDUCCION",
        texto |-> <<"S","i","g","u","e"," ","e","l"," ","p","l","a","n">>],
       [codigo |-> "P150", categoria |-> "COMENTARIOS",
        texto |-> <<"C","o","m","e","n","t","a","r","i","o","s">>] >>

Codigos == {Catalogo[i].codigo : i \in DOMAIN Catalogo}

\* the Pregunta object of a code (PandasPreguntaRepository._by_codigo); below,
\* a Pregunta is named by its code, which is its identity (__eq__, __hash__)
Pregunta == [c \in Codigos |-> CHOOSE p \in Range(Catalogo) : p.codigo = c]

\* the codes in catalog order
CodigosEnOrden == [i \in DOMAIN Catalogo |-> Catalogo[i].codigo]

\* Calificacion.MIN_VALOR, MAX_VALOR, in tenths
MIN_VALOR == 10
MAX_VALOR == 50

\* the ratings the loaded rows carry, in tenths: Calificacion accepts the
\* values from MIN_VALOR to MAX_VALOR only
Valores == {v \in {20, 30, 50} : MIN_VALOR <= v /\ v <= MAX_VALOR}

Documentos == {"123456", "999999"}
Nombres == [d \in Documentos |-> IF d = "123456" THEN "Juan Pérez" ELSE "Ana Gómez"]
Periodos == { <<"2","0","2","5","-","1">>, <<"2","0","2","5","-","2">> }
TiposFormulario == {"AUTOEVALUACIÓN V2", "ESTUDIANTE V3"}

\* the tipo_formulario labels in the order of Python's str comparison
ActoresOrdenados == <<"AUTOEVALUACIÓN V2", "ESTUDIANTE V3">>

(***************************************************************************)
(* Periodo: Periodo.PATTERN is ^\d{4}-[12]$ and is applied with re.match,   *)
(* whose $ also matches just before a final newline.                       *)
(***************************************************************************)
Digitos == {"0", "1", "2", "3", "4", "5", "6", "7", "8", "9"}

PeriodoValido(s) ==
    /\ Len(s) \in {6, 7}
    /\ \A i \in 1..4 : s[i] \in Digitos
    /\ s[5] = "-"
    /\ s[6] \in {"1", "2"}
    /\ Len(s) = 7 => s[7] = "\n"

(***************************************************************************)
(* Pregunta and Evaluacion.                                                *)
(***************************************************************************)
es_comentario(p) == Pregunta[p].categoria = COMENTARIOS

pertenece_a_categoria(p, categoria) == Pregunta[p].categoria = categoria

\* float(cal) of a Calificacion
Float(cal) == RatInt(CHOOSE v \in cal : TRUE)

\* self.respuestas.items(): the dict, a sequence of [pregunta, cal] in
\* insertion order
Items(e) == e.respuestas

\* the mean over every answered rating, Comments included
calcular_promedio_general_con_comentarios(e) ==
    LET sel == SelectSeq(Items(e), LAMBDA it : it.cal # {})
        calificaciones == Map(sel, LAMBDA it : Float(it.cal))
    IN  IF calificaciones = <<>> THEN Cero ELSE mean(calificaciones)

calcular_promedio_general(e) ==
    LET sel == SelectSeq(Items(e), LAMBDA it : it.cal # {} /\ ~es_comentario(it.pregunta))
        calificaciones == Map(sel, LAMBDA it : Float(it.cal))
    IN  IF calificaciones = <<>> THEN Cero ELSE mean(calificaciones)

calcular_promedio_por_categoria(e, categoria) ==
    LET sel == SelectSeq(Items(e),
                   LAMBDA it : it.cal # {} /\ pertenece_a_categoria(it.pregunta, categoria))
        calificaciones == Map(sel, LAMBDA it : Float(it.cal))
    IN  IF calificaciones = <<>> THEN Cero ELSE mean(calificaciones)

\* the categories of the keys of respuestas, answered or not, in order of
\* first appearance
categorias_evaluadas(e) ==
    LET sel == SelectSeq(Items(e), LAMBDA it : ~es_comentario(it.pregunta))
    IN  Claves(Map(sel, LAMBDA it : Pregunta[it.pregunta].categoria))

(***************************************************************************)
(* PandasEvaluacionRepository: the lookups the use cases call.             *)
(***************************************************************************)
find_by_profesor(evs, documento) ==
    SelectSeq(evs, LAMBDA e : e.profesor_documento = documento)

(***************************************************************************)
(* sorted(s, key=...): the stable sort of s by the keys k (k[i] is the key *)
(* of s[i], a rational; a str key is the rational of its index in the      *)
(* order of str comparison).                                               *)
(***************************************************************************)
Posicion(k, i) ==
    1 + Cardinality({j \in DOMAIN k :
                        RatLt(k[j], k[i]) \/ (~RatLt(k[i], k[j]) /\ j < i)})

sorted(s, k) ==
    Map([p \in DOMAIN s |-> p], LAMBDA p : s[CHOOSE i \in DOMAIN s : Posicion(k, i) = p])

IndiceEn(orden, x) == CHOOSE i \in DOMAIN orden : orden[i] = x

(***************************************************************************)
(* Exceptions, as the values a call ends with.                             *)
(***************************************************************************)
\* ProfesorNotFoundError(documento): documento is the text the constructor is
\* given, kept as the sequence of the pieces it is formatted from
ProfesorNotFoundError(documento) ==
    [tipo |-> "ProfesorNotFoundError", documento |-> documento]

\* Periodo.__post_init__ on a malformed valor
ValueError == [tipo |-> "ValueError"]

\* bool(request.periodo): None and the empty str are both false
Dado(periodo) == periodo # {} /\ periodo # {<<>>}

ValorDe(periodo) == CHOOSE p \in periodo : TRUE

(***************************************************************************)
(* CalcularPromedioProfesorUseCase                                         *)
(***************************************************************************)
\* the mean over the evaluations with a rating only
_calcular_promedio_general_sin_ceros(evs) ==
    LET promedios == SelectSeq(Map(evs, calcular_promedio_general),
                               LAMBDA x : RatLt(Cero, x))
    IN  IF promedios # <<>> THEN mean(promedios) ELSE Cero

_calcular_promedio_general(evs) ==
    LET promedios == Map(evs, calcular_promedio_general)
    IN  IF promedios # <<>> THEN mean(promedios) ELSE Cero

\* a dict of lists after the appends s, each [clave, valor]: the keys in order
\* of first append, each with the list of its values
Agrupar(s) ==
    Map(Claves(Map(s, LAMBDA a : a.clave)), LAMBDA k :
        [clave |-> k,
         valores |-> Map(SelectSeq(s, LAMBDA a : a.clave = k), LAMBDA a : a.valor)])

\* the loop without the test promedio > 0
categoria_promedios_con_ceros(evs) ==
    Agrupar(Concat(Map(evs, LAMBDA e :
        Map(SelectSeq(categorias_evaluadas(e), LAMBDA categoria :
                categoria # COMENTARIOS),
            LAMBDA categoria :
                [clave |-> categoria,
                 valor |-> calcular_promedio_por_categoria(e, categoria)]))))

\* categoria_promedios once the loop over evaluaciones has ended; the counter
\* categoria_count[c] grows with every append, so it is the length of the list.
\* categorias_evaluadas() is a set, read in an order the build chooses; the
\* order kept here is the order of first appearance, and the final sort makes
\* the result independent of it.
categoria_promedios(evs) ==
    Agrupar(Concat(Map(evs, LAMBDA e :
        Map(SelectSeq(categorias_evaluadas(e), LAMBDA categoria :
                /\ categoria # COMENTARIOS
                /\ RatLt(Cero, calcular_promedio_por_categoria(e, categoria))),
            LAMBDA categoria :
                [clave |-> categoria,
                 valor |-> calcular_promedio_por_categoria(e, categoria)]))))

\* the list sorted with key=lambda x: x.categoria_corta
_calcular_por_categoria_por_etiqueta_corta(evs) ==
    LET resultados ==
            Map(SelectSeq(categoria_promedios(evs), LAMBDA g : g.valores # <<>>),
                LAMBDA g :
                    [categoria |-> CategoriaValue[g.clave],
                     categoria_corta |-> descripcion_corta[g.clave],
                     promedio |-> mean(g.valores),
                     total_evaluaciones |-> Len(g.valores)])
    IN  sorted(resultados,
               Map(resultados, LAMBDA x : RatInt(IndiceEn(CortasOrdenadas, x.categoria_corta))))

_calcular_por_categoria(evs) ==
    LET resultados ==
            Map(SelectSeq(categoria_promedios(evs), LAMBDA g : g.valores # <<>>),
                LAMBDA g :
                    [categoria |-> CategoriaValue[g.clave],
                     categoria_corta |-> descripcion_corta[g.clave],
                     promedio |-> mean(g.valores),
                     total_evaluaciones |-> Len(g.valores)])
    IN  sorted(resultados,
               Map(resultados, LAMBDA x : RatInt(IndiceEn(EtiquetasOrdenadas, x.categoria))))

\* the loop without the test promedio > 0
actor_promedios_con_ceros(evs) ==
    Agrupar(Map(evs, LAMBDA e :
        [clave |-> e.tipo_formulario, valor |-> calcular_promedio_general(e)]))

\* actor_promedios once the loop over evaluaciones has ended; actor_count[a]
\* is the length of the list
actor_promedios(evs) ==
    Agrupar(Map(SelectSeq(evs, LAMBDA e : RatLt(Cero, calcular_promedio_general(e))),
                LAMBDA e :
                    [clave |-> e.tipo_formulario, valor |-> calcular_promedio_general(e)]))

\* total_evaluaciones of every actor counted as len(evaluaciones)
_calcular_por_actor_contando_todas(evs) ==
    LET resultados ==
            Map(SelectSeq(actor_promedios(evs), LAMBDA g : g.valores # <<>>),
                LAMBDA g :
                    [actor |-> g.clave,
                     promedio |-> mean(g.valores),
                     total_evaluaciones |-> Len(evs)])
    IN  sorted(resultados,
               Map(resultados, LAMBDA x : RatInt(IndiceEn(ActoresOrdenados, x.actor))))

_calcular_por_actor(evs) ==
    LET resultados ==
            Map(SelectSeq(actor_promedios(evs), LAMBDA g : g.valores # <<>>),
                LAMBDA g :
                    [actor |-> g.clave,
                     promedio |-> mean(g.valores),
                     total_evaluaciones |-> Len(g.valores)])
    IN  sorted(resultados,
               Map(resultados, LAMBDA x : RatInt(IndiceEn(ActoresOrdenados, x.actor))))

\* steps 3 to 6 of execute, on the evaluations the filter kept
PromedioProfesorResponse(request, evs) ==
    [tipo |-> "PromedioProfesorResponse",
     documento |-> request.documento,
     nombre_completo |-> evs[1].profesor_nombre,
     periodo |-> request.periodo,
     promedio_general |-> _calcular_promedio_general(evs),
     total_evaluaciones |-> Len(evs),
     promedios_por_categoria |-> _calcular_por_categoria(evs),
     promedios_por_actor |-> _calcular_por_actor(evs)]

\* step 2 of execute without its test
FiltrarPorPeriodo_sin_filtro(evs, periodo_obj) == evs

\* step 2 of execute: e.periodo == periodo_obj
FiltrarPorPeriodo(evs, periodo_obj) ==
    SelectSeq(evs, LAMBDA e : e.periodo = periodo_obj)

\* execute raising the same error for an empty period as for an unknown teacher
CalcularPromedioProfesor_execute_sin_periodo(repo, request) ==
    LET todas == find_by_profesor(repo, request.documento)
    IN  IF todas = <<>>
        THEN ProfesorNotFoundError(<<request.documento>>)
        ELSE IF Dado(request.periodo)
             THEN IF ~PeriodoValido(ValorDe(request.periodo))
                  THEN ValueError
                  ELSE LET filtradas == FiltrarPorPeriodo(todas, ValorDe(request.periodo))
                       IN  IF filtradas = <<>>
                           THEN ProfesorNotFoundError(<<request.documento>>)
                           ELSE PromedioProfesorResponse(request, filtradas)
             ELSE PromedioProfesorResponse(request, todas)

CalcularPromedioProfesor_execute(repo, request) ==
    LET todas == find_by_profesor(repo, request.documento)
    IN  IF todas = <<>>
        THEN ProfesorNotFoundError(<<request.documento>>)
        ELSE IF Dado(request.periodo)
             THEN IF ~PeriodoValido(ValorDe(request.periodo))
                  THEN ValueError
                  ELSE LET filtradas == FiltrarPorPeriodo(todas, ValorDe(request.periodo))
                       IN  IF filtradas = <<>>
                           THEN ProfesorNotFoundError(
                                    <<request.documento, " en período ">>
                                        \o ValorDe(request.periodo))
                           ELSE PromedioProfesorResponse(request, filtradas)
             ELSE PromedioProfesorResponse(request, todas)

(***************************************************************************)
(* ObtenerPropuestaMejoraUseCase                                           *)
(***************************************************************************)
\* the rule table, entries and keywords in the order the dict literal
\* declares them
RECOMENDACIONES ==
    <<
    [categoria |-> "PLANEACIÓN DEL PROCESO ENSEÑANZA - APRENDIZAJE - EVALUACIÓN",
     default |-> "Revise y actualice la planificación de sus clases, asegurándose de incluir objetivos claros, metodologías apropiadas y criterios de evaluación alineados con las competencias del módulo.",
     keywords |-> <<
            [keyword |-> <<"c","o","n","o","c","i","m","i","e","n","t","o","s"," ","a","c","t","u","a","l","i","z","a","d","o","s">>,
             recomendacion |-> "Actualice sus conocimientos mediante capacitaciones, lectura de literatura reciente y participación en comunidades académicas de su disciplina."],
            [keyword |-> <<"p","r","o","g","r","a","m","a">>,
             recomendacion |-> "Socialice el programa del módulo desde el inicio del periodo, explicando objetivos, contenidos, metodología y criterios de evaluación."],
            [keyword |-> <<"p","l","a","n">>,
             recomendacion |-> "Desarrolle un plan de trabajo detallado que sea coherente con el programa y las necesidades de aprendizaje de los estudiantes."] >>],
    [categoria |-> "CONDUCCIÓN DEL PROCESO ENSEÑANZA-APRENDIZAJE",
     default |-> "Implemente metodologías activas que promuevan la participación estudiantil, el pensamiento crítico y la aplicación práctica del conocimiento.",
     keywords |-> <<
            [keyword |-> <<"p","r","o","y","e","c","t","o","s"," ","d","e"," ","a","u","l","a">>,
             recomendacion |-> "Diseñe proyectos de aula que conecten la teoría con situaciones reales y promuevan la investigación y creatividad estudiantil."],
            [keyword |-> <<"r","e","c","u","r","s","o","s">>,
             recomendacion |-> "Incorpore diversos recursos didácticos (TIC, materiales audiovisuales, laboratorios) para enriquecer el proceso de aprendizaje."],
            [keyword |-> <<"m","e","t","o","d","o","l","o","g","í","a">>,
             recomendacion |-> "Diversifique las estrategias metodológicas para atender diferentes estilos de aprendizaje y mantener la motivación estudiantil."],
            [keyword |-> <<"t","e","c","n","o","l","o","g","í","a">>,
             recomendacion |-> "Integre herramientas tecnológicas (aula virtual, aplicaciones, simuladores) de manera efectiva en sus clases."] >>],
    [categoria |-> "EVALUACIÓN DEL APRENDIZAJE",
     default |-> "Diseñe evaluaciones variadas que midan de forma integral las competencias desarrolladas, proporcionando retroalimentación oportuna y constructiva.",
     keywords |-> <<
            [keyword |-> <<"m","é","t","o","d","o","s">>,
             recomendacion |-> "Aplique diferentes métodos de evaluación (pruebas escritas, orales, prácticas, proyectos) según las competencias a valorar."],
            [keyword |-> <<"r","e","t","r","o","a","l","i","m","e","n","t","a","c","i","ó","n">>,
             recomendacion |-> "Proporcione retroalimentación clara, específica y oportuna que oriente la mejora del aprendizaje estudiantil."],
            [keyword |-> <<"c","o","h","e","r","e","n","t","e">>,
             recomendacion |-> "Asegúrese de que las evaluaciones estén alineadas con los objetivos de aprendizaje y las actividades realizadas en clase."],
            [keyword |-> <<"c","r","i","t","e","r","i","o","s">>,
             recomendacion |-> "Defina y comunique claramente los criterios de evaluación antes de cada actividad evaluativa."] >>],
    [categoria |-> "COMPONENTE PERSONAL",
     default |-> "Fortalezca las relaciones interpersonales en el aula mediante el respeto, la empatía y la comunicación efectiva.",
     keywords |-> <<
            [keyword |-> <<"r","e","s","p","e","t","o">>,
             recomendacion |-> "Mantenga una actitud de respeto y tolerancia hacia la diversidad de ideas, creencias y características de los estudiantes."],
            [keyword |-> <<"d","i","s","c","i","p","l","i","n","a">>,
             recomendacion |-> "Establezca normas claras de convivencia y mantenga un ambiente de aprendizaje ordenado y propicio."],
            [keyword |-> <<"c","o","m","u","n","i","c","a","c","i","ó","n">>,
             recomendacion |-> "Desarrolle habilidades de escucha activa y comunicación asertiva para mejorar la interacción con estudiantes."],
            [keyword |-> <<"p","u","n","t","u","a","l","i","d","a","d">>,
             recomendacion |-> "Demuestre responsabilidad y compromiso cumpliendo puntualmente con horarios y compromisos académicos."] >>]
    >>

\* the text returned for a category the table does not hold
RECOMENDACION_GENERICA ==
    "Se recomienda revisar y fortalecer las competencias relacionadas con este aspecto mediante capacitación y reflexión sobre su práctica docente."

\* str.lower(), character by character
Mayusculas ==
    << "A","B","C","D","E","F","G","H","I","J","K","L","M","N","O","P","Q","R",
       "S","T","U","V","W","X","Y","Z","Á","É","Í","Ó","Ú","Ñ","Ü" >>
Minusculas ==
    << "a","b","c","d","e","f","g","h","i","j","k","l","m","n","o","p","q","r",
       "s","t","u","v","w","x","y","z","á","é","í","ó","ú","ñ","ü" >>

LowerChar(c) ==
    IF c \in Range(Mayusculas) THEN Minusculas[IndiceEn(Mayusculas, c)] ELSE c

lower(texto) == Map(texto, LowerChar)

\* keyword in texto: keyword is a contiguous part of texto
Contiene(texto, keyword) ==
    \E i \in 0..(Len(texto) - Len(keyword)) :
        \A j \in 1..Len(keyword) : texto[i + j] = keyword[j]

\* the scan without lower()
_obtener_recomendacion_sin_lower(categoria, texto_pregunta) ==
    IF ~\E i \in DOMAIN RECOMENDACIONES : RECOMENDACIONES[i].categoria = categoria
    THEN RECOMENDACION_GENERICA
    ELSE LET config == RECOMENDACIONES[
                 CHOOSE i \in DOMAIN RECOMENDACIONES : RECOMENDACIONES[i].categoria = categoria]
             hallados == SelectSeq(config.keywords,
                             LAMBDA k : Contiene(texto_pregunta, k.keyword))
         IN  IF hallados # <<>> THEN hallados[1].recomendacion ELSE config.default

_obtener_recomendacion(categoria, texto_pregunta) ==
    IF ~\E i \in DOMAIN RECOMENDACIONES : RECOMENDACIONES[i].categoria = categoria
    THEN RECOMENDACION_GENERICA
    ELSE LET config == RECOMENDACIONES[
                 CHOOSE i \in DOMAIN RECOMENDACIONES : RECOMENDACIONES[i].categoria = categoria]
             texto_lower == lower(texto_pregunta)
             hallados == SelectSeq(config.keywords,
                             LAMBDA k : Contiene(texto_lower, k.keyword))
         IN  IF hallados # <<>> THEN hallados[1].recomendacion ELSE config.default

\* the threshold 4.0 of execute (a category) and of _generar_recomendaciones
\* (a question), in tenths
UmbralCategoria == 40
UmbralPregunta == 40

\* every (pregunta, calificacion) item of every evaluation, in loop order
TodosLosItems(evs) == Concat(Map(evs, Items))

\* bool(calificacion): a Calificacion object is true, None is false
Contestada(it) == it.cal # {}

\* the category means as means of the per-evaluation category means
_calcular_promedios_por_categoria_media_de_medias(evs) ==
    LET sel == SelectSeq(TodosLosItems(evs),
                   LAMBDA it : Contestada(it) /\ ~es_comentario(it.pregunta))
        claves == Claves(Map(sel, LAMBDA it : Pregunta[it.pregunta].categoria))
        Medias(c) == SelectSeq(Map(evs, LAMBDA e : calcular_promedio_por_categoria(e, c)),
                               LAMBDA x : RatLt(Cero, x))
    IN  Map(claves, LAMBDA c : [categoria |-> c, promedio |-> mean(Medias(c))])

_calcular_promedios_por_categoria(evs) ==
    LET sel == SelectSeq(TodosLosItems(evs),
                   LAMBDA it : Contestada(it) /\ ~es_comentario(it.pregunta))
        claves == Claves(Map(sel, LAMBDA it : Pregunta[it.pregunta].categoria))
        DeCategoria(c) == SelectSeq(sel, LAMBDA it : Pregunta[it.pregunta].categoria = c)
    IN  Map(claves, LAMBDA c :
            [categoria |-> c,
             promedio |-> mean(Map(DeCategoria(c), LAMBDA it : Float(it.cal)))])

\* the recommendations in the order the questions were first met, not sorted
_generar_recomendaciones_sin_ordenar(categoria, evs) ==
    LET sel == SelectSeq(TodosLosItems(evs),
                   LAMBDA it : /\ Pregunta[it.pregunta].categoria = categoria
                               /\ Contestada(it)
                               /\ ~es_comentario(it.pregunta))
        claves == Claves(Map(sel, LAMBDA it : Pregunta[it.pregunta].codigo))
        DePregunta(c) == SelectSeq(sel, LAMBDA it : Pregunta[it.pregunta].codigo = c)
        Promedio(c) == mean(Map(DePregunta(c), LAMBDA it : Float(it.cal)))
        bajas == SelectSeq(claves, LAMBDA c : RatLt(Promedio(c), RatInt(UmbralPregunta)))
    IN  Map(bajas, LAMBDA c :
            [codigo_pregunta |-> Pregunta[c].codigo,
             texto_pregunta |-> Pregunta[c].texto,
             calificacion_promedio |-> Promedio(c),
             recomendacion |-> _obtener_recomendacion(
                                   CategoriaValue[categoria], Pregunta[c].texto)])

\* the question test against 3.0 in place of 4.0
_generar_recomendaciones_bajo_tres(categoria, evs) ==
    LET sel == SelectSeq(TodosLosItems(evs),
                   LAMBDA it : /\ Pregunta[it.pregunta].categoria = categoria
                               /\ Contestada(it)
                               /\ ~es_comentario(it.pregunta))
        claves == Claves(Map(sel, LAMBDA it : Pregunta[it.pregunta].codigo))
        DePregunta(c) == SelectSeq(sel, LAMBDA it : Pregunta[it.pregunta].codigo = c)
        Promedio(c) == mean(Map(DePregunta(c), LAMBDA it : Float(it.cal)))
        bajas == SelectSeq(claves, LAMBDA c : RatLt(Promedio(c), RatInt(30)))
        recomendaciones ==
            Map(bajas, LAMBDA c :
                [codigo_pregunta |-> Pregunta[c].codigo,
                 texto_pregunta |-> Pregunta[c].texto,
                 calificacion_promedio |-> Promedio(c),
                 recomendacion |-> _obtener_recomendacion(
                                       CategoriaValue[categoria], Pregunta[c].texto)])
    IN  sorted(recomendaciones,
               Map(recomendaciones, LAMBDA r : r.calificacion_promedio))

\* the question test with <= in place of <
_generar_recomendaciones_con_igual(categoria, evs) ==
    LET sel == SelectSeq(TodosLosItems(evs),
                   LAMBDA it : /\ Pregunta[it.pregunta].categoria = categoria
                               /\ Contestada(it)
                               /\ ~es_comentario(it.pregunta))
        claves == Claves(Map(sel, LAMBDA it : Pregunta[it.pregunta].codigo))
        DePregunta(c) == SelectSeq(sel, LAMBDA it : Pregunta[it.pregunta].codigo = c)
        Promedio(c) == mean(Map(DePregunta(c), LAMBDA it : Float(it.cal)))
        bajas == SelectSeq(claves, LAMBDA c : RatLe(Promedio(c), RatInt(UmbralPregunta)))
        recomendaciones ==
            Map(bajas, LAMBDA c :
                [codigo_pregunta |-> Pregunta[c].codigo,
                 texto_pregunta |-> Pregunta[c].texto,
                 calificacion_promedio |-> Promedio(c),
                 recomendacion |-> _obtener_recomendacion(
                                       CategoriaValue[categoria], Pregunta[c].texto)])
    IN  sorted(recomendaciones,
               Map(recomendaciones, LAMBDA r : r.calificacion_promedio))

_generar_recomendaciones(categoria, evs) ==
    LET sel == SelectSeq(TodosLosItems(evs),
                   LAMBDA it : /\ Pregunta[it.pregunta].categoria = categoria
                               /\ Contestada(it)
                               /\ ~es_comentario(it.pregunta))
        claves == Claves(Map(sel, LAMBDA it : Pregunta[it.pregunta].codigo))
        DePregunta(c) == SelectSeq(sel, LAMBDA it : Pregunta[it.pregunta].codigo = c)
        Promedio(c) == mean(Map(DePregunta(c), LAMBDA it : Float(it.cal)))
        bajas == SelectSeq(claves, LAMBDA c : RatLt(Promedio(c), RatInt(UmbralPregunta)))
        recomendaciones ==
            Map(bajas, LAMBDA c :
                [codigo_pregunta |-> Pregunta[c].codigo,
                 texto_pregunta |-> Pregunta[c].texto,
                 calificacion_promedio |-> Promedio(c),
                 recomendacion |-> _obtener_recomendacion(
                                       CategoriaValue[categoria], Pregunta[c].texto)])
    IN  sorted(recomendaciones,
               Map(recomendaciones, LAMBDA r : r.calificacion_promedio))

\* the loop of execute with the category test <= and without the test of the
\* recommendation list
CategoriasAMejorar_sin_guarda(evs) ==
    LET categorias_promedios == _calcular_promedios_por_categoria(evs)
        elegidas == SelectSeq(categorias_promedios, LAMBDA cp :
                        RatLe(cp.promedio, RatInt(UmbralCategoria)))
    IN  Map(elegidas, LAMBDA cp :
            [categoria |-> CategoriaValue[cp.categoria],
             promedio_categoria |-> cp.promedio,
             recomendaciones |-> _generar_recomendaciones(cp.categoria, evs)])

\* the loop of execute over categorias_promedios.items()
CategoriasAMejorar(evs) ==
    LET categorias_promedios == _calcular_promedios_por_categoria(evs)
        elegidas == SelectSeq(categorias_promedios, LAMBDA cp :
                        /\ RatLt(cp.promedio, RatInt(UmbralCategoria))
                        /\ _generar_recomendaciones(cp.categoria, evs) # <<>>)
    IN  Map(elegidas, LAMBDA cp :
            [categoria |-> CategoriaValue[cp.categoria],
             promedio_categoria |-> cp.promedio,
             recomendaciones |-> _generar_recomendaciones(cp.categoria, evs)])

\* ev.periodo.valor == request.periodo
FiltrarPorValor(evs, valor) == SelectSeq(evs, LAMBDA ev : ev.periodo = valor)

ObtenerPropuestaMejora_execute(repo, request) ==
    LET todas == find_by_profesor(repo, request.documento)
        filtradas == IF Dado(request.periodo)
                     THEN FiltrarPorValor(todas, ValorDe(request.periodo))
                     ELSE todas
    IN  IF todas = <<>>
        THEN ProfesorNotFoundError(<<request.documento>>)
        ELSE IF filtradas = <<>>
             THEN ProfesorNotFoundError(
                      <<"No se encontraron evaluaciones para el profesor ", request.documento>>)
             ELSE [tipo |-> "PropuestaMejoraResponse",
                   documento |-> request.documento,
                   nombre_completo |-> todas[1].profesor_nombre,
                   periodo |-> request.periodo,
                   categorias_a_mejorar |-> CategoriasAMejorar(filtradas)]

(***************************************************************************)
(* The state machine: a repository built from a loaded collection, and the *)
(* two use cases called on it with any request.                            *)
(***************************************************************************)
\* Optional[Calificacion] of a parsed cell (_parse_calificacion): a rating, or
\* None for an empty cell; to bound the model, only the cells of P147 and of
\* P150 are ever empty, and only P149 is ever rated 2.0
CalificacionesPosibles(codigo) ==
    {{v} : v \in {x \in Valores : x = 20 => codigo = "P149"}}
        \cup (IF codigo \in {"P147", "P150"} THEN {{}} ELSE {})

\* the answer mappings of a parsed row: one entry for each catalog column the
\* file has, added in catalog order (_crear_evaluacion)
RespuestasPosibles ==
    UNION {{[i \in 1..Cardinality(D) |->
                [pregunta |-> SelectSeq(CodigosEnOrden, LAMBDA c : c \in D)[i],
                 cal |-> f[SelectSeq(CodigosEnOrden, LAMBDA c : c \in D)[i]]]] :
               f \in {g \in [D -> {{}} \cup {{v} : v \in Valores}] :
                          \A c \in D : g[c] \in CalificacionesPosibles(c)}} :
              D \in {S \in SUBSET Codigos : Cardinality(S) <= MaxRespuestas}}

\* a parsed row (_crear_evaluacion), before its id. The rows of the teacher
\* the requests ask for vary in every field; the rows of the other teacher
\* vary in their period only.
FilasPosibles ==
    [profesor_documento : {"123456"}, periodo : Periodos,
     tipo_formulario : TiposFormulario, respuestas : RespuestasPosibles]
    \cup
    [profesor_documento : {"999999"}, periodo : Periodos,
     tipo_formulario : {"ESTUDIANTE V3"}, respuestas : {<<[pregunta |-> "P147", cal |-> {50}]>>}]

Evaluacion(id, fila) ==
    [id |-> id,
     profesor_documento |-> fila.profesor_documento,
     profesor_nombre |-> Nombres[fila.profesor_documento],
     periodo |-> fila.periodo,
     tipo_formulario |-> fila.tipo_formulario,
     respuestas |-> fila.respuestas]

\* the period strings of a request: none, empty, a period (one is enough, the
\* loaded rows treat both alike), a malformed one
PeriodosDeSolicitud ==
    { {}, {<<>>}, {<<"2","0","2","5","-","2">>}, {<<"2","0","2","5","-","3">>} }

Solicitudes == [documento : {"123456"}, periodo : PeriodosDeSolicitud]

SinSolicitud == [caso |-> "ninguno"]
SinResultado == [tipo |-> "ninguno"]

\* no thread is inside a provider, and the list objects are not followed
SinHilos == <<>>
SinMemoria == <<>>

\* the process once startup_event has returned: initialize_repositories has
\* loaded the data once and set both singletons to the repositories of that
\* load
Inicializado ==
    /\ _evaluacion_repo = {1}
    /\ _pregunta_repo = {1}
    /\ hilos = SinHilos
    /\ cargas = 1
    /\ memoria = SinMemoria

Init ==
    /\ \E n \in 0..MaxEvaluaciones :
          \E filas \in [1..n -> FilasPosibles] :
              evaluaciones = [i \in 1..n |-> Evaluacion(i, filas[i])]
    /\ solicitud = SinSolicitud
    /\ resultado = SinResultado
    /\ Inicializado

\* GET /profesores/{documento}/promedios
CalcularPromedio ==
    /\ solicitud = SinSolicitud
    /\ \E request \in Solicitudes :
        /\ solicitud' = [caso |-> "promedios", documento |-> request.documento,
                         periodo |-> request.periodo]
        /\ resultado' = CalcularPromedioProfesor_execute(evaluaciones, request)
    /\ UNCHANGED <<evaluaciones, proceso>>

\* GET /profesores/{documento}/mejoras
ObtenerPropuestaMejora ==
    /\ solicitud = SinSolicitud
    /\ \E request \in Solicitudes :
        /\ solicitud' = [caso |-> "mejoras", documento |-> request.documento,
                         periodo |-> request.periodo]
        /\ resultado' = ObtenerPropuestaMejora_execute(evaluaciones, request)
    /\ UNCHANGED <<evaluaciones, proceso>>

\* the handler returns: the response or the error leaves the process
Responder ==
    /\ solicitud # SinSolicitud
    /\ solicitud' = SinSolicitud
    /\ resultado' = SinResultado
    /\ UNCHANGED <<evaluaciones, proceso>>

Next == CalcularPromedio \/ ObtenerPropuestaMejora \/ Responder

Spec == Init /\ [][Next]_vars

\* the Average Calculator alone
NextPromedio == CalcularPromedio \/ Responder
SpecPromedio == Init /\ [][NextPromedio]_vars

\* the Recommendation Engine alone
NextMejora == ObtenerPropuestaMejora \/ Responder
SpecMejora == Init /\ [][NextMejora]_vars

(***************************************************************************)
(* _obtener_recomendacion on its own: any category label with any question *)
(* text built from a few fragments.                                        *)
(***************************************************************************)
MaxFragmentos == 2

\* pieces of question texts: keywords of the table in several cases, parts of
\* keywords, other text
Fragmentos ==
    { <<"p","l","a","n">>, <<"P","l","a","n">>, <<"p","l","a">>, <<"n">>,
      <<"P","R","O","G","R","A","M","A">>, <<"p","r","o","g","r","a","m","a">>,
      <<"R","e","c","u","r","s","o","s">>, <<"M","E","T","O","D","O","L","O","G","Í","A">>,
      <<"t","e","c","n","o","l","o","g","i","a">>,
      <<"C","r","i","t","e","r","i","o","s">>, <<"m","é","t","o","d","o","s">>,
      <<"R","E","S","P","E","T","O">>, <<" ","e","l"," ">> }

TextosPosibles ==
    UNION {{Concat(f) : f \in [1..n -> Fragmentos]} : n \in 0..MaxFragmentos}

Etiquetas == {CategoriaValue[c] : c \in Categoria}

InitRecomendacion ==
    /\ evaluaciones = <<>>
    /\ \E categoria \in Etiquetas : \E texto \in TextosPosibles :
          solicitud = [caso |-> "recomendacion", categoria |-> categoria,
                       texto_pregunta |-> texto]
    /\ resultado = SinResultado
    /\ Inicializado

\* the call self._obtener_recomendacion(categoria.value, pregunta.texto)
ObtenerRecomendacion ==
    /\ solicitud.caso = "recomendacion"
    /\ resultado = SinResultado
    /\ resultado' = [tipo |-> "recomendacion",
                     recomendacion |-> _obtener_recomendacion(
                                           solicitud.categoria, solicitud.texto_pregunta)]
    /\ UNCHANGED <<evaluaciones, solicitud, proceso>>

NextRecomendacion == ObtenerRecomendacion
SpecRecomendacion == InitRecomendacion /\ [][NextRecomendacion]_vars

(***************************************************************************)
(* ObtenerDetalleEvaluacionUseCase                                         *)
(***************************************************************************)
ObtenerDetalleEvaluacion_execute(repo, request) ==
    LET todas == find_by_profesor(repo, request.documento)
        filtradas == IF Dado(request.periodo)
                     THEN FiltrarPorValor(todas, ValorDe(request.periodo))
                     ELSE todas
        periodo_msg == IF Dado(request.periodo)
                       THEN <<" en el período ">> \o ValorDe(request.periodo)
                       ELSE <<>>
    IN  IF todas = <<>>
        THEN ProfesorNotFoundError(<<request.documento>>)
        ELSE IF filtradas = <<>>
             THEN ProfesorNotFoundError(
                      <<"No se encontraron evaluaciones para el profesor ", request.documento>>
                          \o periodo_msg)
             ELSE [tipo |-> "DetalleEvaluacionResponse",
                   documento |-> request.documento,
                   nombre_completo |-> todas[1].profesor_nombre,
                   periodo |-> request.periodo,
                   total_evaluaciones |-> Len(filtradas),
                   respuestas |->
                       Concat(Map(filtradas, LAMBDA e :
                           Map(Items(e), LAMBDA it :
                               [codigo_pregunta |-> Pregunta[it.pregunta].codigo,
                                texto_pregunta |-> Pregunta[it.pregunta].texto,
                                categoria |-> CategoriaValue[Pregunta[it.pregunta].categoria],
                                calificacion |-> it.cal,
                                tipo_formulario |-> e.tipo_formulario])))]

(***************************************************************************)
(* The route handlers of api/routes/profesores.py: the use case call       *)
(* inside try, and the two except clauses.                                 *)
(***************************************************************************)
MaxEvaluacionesRutas == 1

\* a use case ended by raising
EsExcepcion(r) == r.tipo \in {"ProfesorNotFoundError", "ValueError", "Exception"}

\* str(e): the message ProfesorNotFoundError builds; for another exception
\* the model keeps the name of its type
Str(e) ==
    IF e.tipo = "ProfesorNotFoundError"
    THEN <<"Profesor con documento ">> \o e.documento \o <<" no encontrado">>
    ELSE <<e.tipo>>

HTTPException(status_code, detail) ==
    [tipo |-> "HTTP", status_code |-> status_code, detail |-> detail]

\* the handler returns its response model
RespuestaHTTP(cuerpo) == [tipo |-> "HTTP", status_code |-> 200, cuerpo |-> cuerpo]

\* except ProfesorNotFoundError ... except Exception ...
Capturar(e, prefijo) ==
    IF e.tipo = "ProfesorNotFoundError"
    THEN HTTPException(404, Str(e))
    ELSE HTTPException(500, <<prefijo>> \o Str(e))

obtener_promedios_profesor(repo, documento, periodo) ==
    LET result == CalcularPromedioProfesor_execute(
                      repo, [documento |-> documento, periodo |-> periodo])
    IN  IF EsExcepcion(result) THEN Capturar(result, "Error interno: ")
        ELSE RespuestaHTTP(result)

obtener_detalle_evaluaciones(repo, documento, periodo) ==
    LET result == ObtenerDetalleEvaluacion_execute(
                      repo, [documento |-> documento, periodo |-> periodo])
    IN  IF EsExcepcion(result) THEN Capturar(result, "Error interno: ")
        ELSE RespuestaHTTP(result)

obtener_propuesta_mejora(repo, documento, periodo) ==
    LET result == ObtenerPropuestaMejora_execute(
                      repo, [documento |-> documento, periodo |-> periodo])
    IN  IF EsExcepcion(result) THEN Capturar(result, "Error interno: ")
        ELSE RespuestaHTTP(result)

\* what PDFGenerator.generate_profesor_report ends with: the file, or any
\* exception of the PDF library
ResultadosDePDF == {[tipo |-> "PDF"], [tipo |-> "Exception"]}

\* pdf_file is what generate_profesor_report ends with when it is reached
exportar_pdf(repo, documento, periodo, pdf_file) ==
    LET promedios == CalcularPromedioProfesor_execute(
                         repo, [documento |-> documento, periodo |-> periodo])
        mejoras == ObtenerPropuestaMejora_execute(
                       repo, [documento |-> documento, periodo |-> periodo])
    IN  IF EsExcepcion(promedios) THEN Capturar(promedios, "Error generando PDF: ")
        ELSE IF EsExcepcion(mejoras) THEN Capturar(mejoras, "Error generando PDF: ")
        ELSE IF EsExcepcion(pdf_file) THEN Capturar(pdf_file, "Error generando PDF: ")
        ELSE RespuestaHTTP(pdf_file)

InitRutas ==
    /\ \E n \in 0..MaxEvaluacionesRutas :
          \E filas \in [1..n -> FilasPosibles] :
              evaluaciones = [i \in 1..n |-> Evaluacion(i, filas[i])]
    /\ solicitud = SinSolicitud
    /\ resultado = SinResultado
    /\ Inicializado

GetPromedios ==
    /\ solicitud = SinSolicitud
    /\ \E request \in Solicitudes :
        /\ solicitud' = [caso |-> "GET /promedios", documento |-> request.documento,
                         periodo |-> request.periodo]
        /\ resultado' = obtener_promedios_profesor(
                            evaluaciones, request.documento, request.periodo)
    /\ UNCHANGED <<evaluaciones, proceso>>

GetDetalle ==
    /\ solicitud = SinSolicitud
    /\ \E request \in Solicitudes :
        /\ solicitud' = [caso |-> "GET /detalle", documento |-> request.documento,
                         periodo |-> request.periodo]
        /\ resultado' = obtener_detalle_evaluaciones(
                            evaluaciones, request.documento, request.periodo)
    /\ UNCHANGED <<evaluaciones, proceso>>

GetMejoras ==
    /\ solicitud = SinSolicitud
    /\ \E request \in Solicitudes :
        /\ solicitud' = [caso |-> "GET /mejoras", documento |-> request.documento,
                         periodo |-> request.periodo]
        /\ resultado' = obtener_propuesta_mejora(
                            evaluaciones, request.documento, request.periodo)
    /\ UNCHANGED <<evaluaciones, proceso>>

GetExportPdf ==
    /\ solicitud = SinSolicitud
    /\ \E request \in Solicitudes : \E pdf_file \in ResultadosDePDF :
        /\ solicitud' = [caso |-> "GET /export-pdf", documento |-> request.documento,
                         periodo |-> request.periodo, pdf_file |-> pdf_file]
        /\ resultado' = exportar_pdf(
                            evaluaciones, request.documento, request.periodo, pdf_file)
    /\ UNCHANGED <<evaluaciones, proceso>>

NextRutas == GetPromedios \/ GetDetalle \/ GetMejoras \/ GetExportPdf \/ Responder
SpecRutas == InitRutas /\ [][NextRutas]_vars

(***************************************************************************)
(* Calificacion: the value object, built by _parse_calificacion as         *)
(* Calificacion(float(valor)), so MIN_VALOR and MAX_VALOR keep their       *)
(* defaults. Values in tenths.                                             *)
(***************************************************************************)
MaxDecimas == 70

\* the floats float(valor) can give, 0.0 to 7.0
FlotantesPosibles == 0..MaxDecimas

InvalidCalificacionError(valor) == [tipo |-> "InvalidCalificacionError", valor |-> valor]

\* __post_init__ with the test MIN_VALOR <= valor < MAX_VALOR
Calificacion_sin_maximo(valor) ==
    IF ~(MIN_VALOR <= valor /\ valor < MAX_VALOR)
    THEN InvalidCalificacionError(valor)
    ELSE [tipo |-> "Calificacion", valor |-> valor]

\* the dataclass constructor followed by __post_init__
Calificacion(valor) ==
    IF ~(MIN_VALOR <= valor /\ valor <= MAX_VALOR)
    THEN InvalidCalificacionError(valor)
    ELSE [tipo |-> "Calificacion", valor |-> valor]

\* self.valor >= 3.0
es_aprobatoria(self) == self.valor >= 30

InitCalificacion ==
    /\ evaluaciones = <<>>
    /\ solicitud = SinSolicitud
    /\ resultado = SinResultado
    /\ Inicializado

ConstruirCalificacion ==
    /\ solicitud = SinSolicitud
    /\ \E valor_float \in FlotantesPosibles :
        /\ solicitud' = [caso |-> "Calificacion", valor |-> valor_float]
        /\ resultado' = Calificacion(valor_float)
    /\ UNCHANGED <<evaluaciones, proceso>>

EsAprobatoria ==
    /\ solicitud.caso = "Calificacion"
    /\ resultado.tipo = "Calificacion"
    /\ solicitud' = [caso |-> "es_aprobatoria", calificacion |-> resultado]
    /\ resultado' = [tipo |-> "bool", valor |-> es_aprobatoria(resultado)]
    /\ UNCHANGED <<evaluaciones, proceso>>

NextCalificacion == ConstruirCalificacion \/ EsAprobatoria \/ Responder
SpecCalificacion == InitCalificacion /\ [][NextCalificacion]_vars

(***************************************************************************)
(* Periodo as a sortable value: anio, semestre and __lt__.                 *)
(***************************************************************************)
ValorDeDigito ==
    [d \in Digitos |->
        CASE d = "0" -> 0 [] d = "1" -> 1 [] d = "2" -> 2 [] d = "3" -> 3 [] d = "4" -> 4
          [] d = "5" -> 5 [] d = "6" -> 6 [] d = "7" -> 7 [] d = "8" -> 8 [] d = "9" -> 9]

\* int(s) of a str of decimal digits
RECURSIVE int(_)
int(s) ==
    IF s = <<>> THEN 0
    ELSE 10 * int(SubSeq(s, 1, Len(s) - 1)) + ValorDeDigito[s[Len(s)]]

\* valor.split('-'): the pieces before and after the hyphen of a str with one
\* hyphen
split(valor) ==
    LET i == CHOOSE j \in DOMAIN valor : valor[j] = "-"
    IN  <<SubSeq(valor, 1, i - 1), SubSeq(valor, i + 1, Len(valor))>>

anio(self) == int(split(self)[1])

semestre(self) == int(split(self)[2])

Periodo__lt__(self, otro) ==
    IF anio(self) # anio(otro)
    THEN anio(self) < anio(otro)
    ELSE semestre(self) < semestre(otro)

\* sorted(periodos): the stable sort, which compares with __lt__ only; the
\* next element goes before the first one it is less than
RECURSIVE sorted_periodos(_)
sorted_periodos(periodos) ==
    IF periodos = <<>> THEN <<>>
    ELSE LET r == sorted_periodos(SubSeq(periodos, 1, Len(periodos) - 1))
             x == periodos[Len(periodos)]
         IN  IF \E i \in DOMAIN r : Periodo__lt__(x, r[i])
             THEN LET k == CHOOSE i \in DOMAIN r :
                               /\ Periodo__lt__(x, r[i])
                               /\ \A j \in 1..(i - 1) : ~Periodo__lt__(x, r[j])
                  IN  SubSeq(r, 1, k - 1) \o <<x>> \o SubSeq(r, k, Len(r))
             ELSE Append(r, x)

(***************************************************************************)
(* PandasEvaluacionRepository and PandasPreguntaRepository as objects. A   *)
(* list object is its identity (objeto: which internal list it is, or a    *)
(* new list) and its elements (valor); a dict is the sequence of its       *)
(* [clave, valor] items in insertion order.                                *)
(***************************************************************************)
MaxCargadas == 2
MaxMutaciones == 1

Lista(objeto, valor) == [tipo |-> "list", objeto |-> objeto, valor |-> valor]

\* the identity of a list no attribute of a repository refers to
Nueva == [indice |-> "nueva", pos |-> 0]

\* lista.copy() returning lista itself
copy_sin_copiar(lista) == lista

\* lista.copy()
copy(lista) == Lista(Nueva, lista.valor)

\* defaultdict(list) filled by index[e[campo]].append(e), then dict(index);
\* the list of the k-th key is the object (nombre, k)
ConstruirIndice(evs, campo, nombre) ==
    LET claves == Claves(Map(evs, LAMBDA e : e[campo]))
    IN  Map([k \in DOMAIN claves |-> k], LAMBDA k :
            [clave |-> claves[k],
             valor |-> Lista([indice |-> nombre, pos |-> k],
                             SelectSeq(evs, LAMBDA e : e[campo] = claves[k]))])

_build_profesor_index(evs) == ConstruirIndice(evs, "profesor_documento", "_by_profesor")

_build_periodo_index(evs) == ConstruirIndice(evs, "periodo", "_by_periodo")

_build_tipo_formulario_index(evs) == ConstruirIndice(evs, "tipo_formulario", "_by_tipo_formulario")

\* {e.id: e for e in evaluaciones}: a key keeps its first position and its
\* last value
_by_id(evs) ==
    Map(Claves(Map(evs, LAMBDA e : e.id)), LAMBDA k :
        [clave |-> k,
         valor |-> LET con == SelectSeq(evs, LAMBDA e : e.id = k) IN con[Len(con)]])

PandasEvaluacionRepository(evs) ==
    [_evaluaciones |-> Lista([indice |-> "_evaluaciones", pos |-> 0], evs),
     _by_id |-> _by_id(evs),
     _by_profesor |-> _build_profesor_index(evs),
     _by_periodo |-> _build_periodo_index(evs),
     _by_tipo_formulario |-> _build_tipo_formulario_index(evs)]

_build_categoria_index(preguntas) == ConstruirIndice(preguntas, "categoria", "_by_categoria")

PandasPreguntaRepository(preguntas) ==
    [_preguntas |-> Lista([indice |-> "_preguntas", pos |-> 0], preguntas),
     _by_codigo |-> Map(Claves(Map(preguntas, LAMBDA q : q.codigo)), LAMBDA k :
                        [clave |-> k,
                         valor |-> LET con == SelectSeq(preguntas, LAMBDA q : q.codigo = k)
                                   IN  con[Len(con)]]),
     _by_categoria |-> _build_categoria_index(preguntas)]

\* the two repositories initialize_repositories builds from load_all()
Repositorios(evs, preguntas) ==
    [evaluacion_repo |-> PandasEvaluacionRepository(evs),
     pregunta_repo |-> PandasPreguntaRepository(preguntas)]

Tiene(dict, clave) == \E i \in DOMAIN dict : dict[i].clave = clave

\* dict[clave]
Item(dict, clave) == dict[CHOOSE i \in DOMAIN dict : dict[i].clave = clave].valor

\* dict.get(clave, []): the list of the key, or a new empty list
get_lista(dict, clave) ==
    IF Tiene(dict, clave) THEN Item(dict, clave) ELSE Lista(Nueva, <<>>)

\* dict.get(clave): Optional
get(dict, clave) == IF Tiene(dict, clave) THEN {Item(dict, clave)} ELSE {}

\* list(dict.keys())
keys(dict) == Lista(Nueva, Map(dict, LAMBDA item : item.clave))

Optional(valor) == [tipo |-> "Optional", valor |-> valor]

EvaluacionRepository_find_all(self) == copy(self._evaluaciones)

find_by_id(self, evaluacion_id) == Optional(get(self._by_id, evaluacion_id))

EvaluacionRepository_find_by_profesor(self, documento) ==
    copy(get_lista(self._by_profesor, documento))

find_by_periodo(self, periodo) == copy(get_lista(self._by_periodo, periodo))

find_by_profesor_and_periodo(self, documento, periodo) ==
    Lista(Nueva, SelectSeq(get_lista(self._by_profesor, documento).valor,
                           LAMBDA e : e.periodo = periodo))

find_by_tipo_formulario(self, tipo) == copy(get_lista(self._by_tipo_formulario, tipo))

\* Profesor.agregar_evaluacion without the test `not in`
agregar_evaluacion_sin_comprobar(evaluaciones_del_profesor, evaluacion) ==
    Append(evaluaciones_del_profesor, evaluacion)

\* Profesor.agregar_evaluacion: `in` compares with Evaluacion.__eq__, by id
agregar_evaluacion(evaluaciones_del_profesor, evaluacion) ==
    IF \E i \in DOMAIN evaluaciones_del_profesor :
           evaluaciones_del_profesor[i].id = evaluacion.id
    THEN evaluaciones_del_profesor
    ELSE Append(evaluaciones_del_profesor, evaluacion)

\* the dict profesores after the loop of get_profesores over evs
RECURSIVE profesores(_)
profesores(evs) ==
    IF evs = <<>> THEN <<>>
    ELSE LET antes == profesores(SubSeq(evs, 1, Len(evs) - 1))
             evaluacion == evs[Len(evs)]
             documento == evaluacion.profesor_documento
         IN  IF \E i \in DOMAIN antes : antes[i].documento = documento
             THEN LET i == CHOOSE j \in DOMAIN antes : antes[j].documento = documento
                  IN  [antes EXCEPT ![i].evaluaciones =
                                        agregar_evaluacion(@, evaluacion)]
             ELSE Append(antes,
                         [documento |-> documento,
                          nombre_completo |-> evaluacion.profesor_nombre,
                          evaluaciones |-> agregar_evaluacion(<<>>, evaluacion)])

get_profesores(self) == Lista(Nueva, profesores(self._evaluaciones.valor))

\* sorted(list(self._by_periodo.keys())) without the sort
get_periodos_disponibles_sin_ordenar(self) == keys(self._by_periodo)

get_periodos_disponibles(self) ==
    Lista(Nueva, sorted_periodos(keys(self._by_periodo).valor))

get_tipos_formulario(self) == keys(self._by_tipo_formulario)

PreguntaRepository_find_all(self) == copy(self._preguntas)

find_by_codigo(self, codigo) == Optional(get(self._by_codigo, codigo))

find_by_categoria(self, categoria) == copy(get_lista(self._by_categoria, categoria))

get_categorias(self) == keys(self._by_categoria)

(***************************************************************************)
(* The repositories under queries: evaluaciones is the list load_all       *)
(* returned, memoria the two repositories built from it.                   *)
(***************************************************************************)
PeriodosCargados ==
    { <<"2","0","2","4","-","2">>, <<"2","0","2","5","-","1">>, <<"2","0","2","5","-","2">> }

\* PEGE_ID values; nothing in the loader makes them unique
IdsCargados == {"1", "2"}

NombresCargados(documento) ==
    IF documento = "123456" THEN {"Juan Pérez", "Juan Perez"} ELSE {"Ana Gómez"}

\* the evaluations _crear_evaluacion can give, answers left out
EvaluacionesCargables ==
    UNION {[id : IdsCargados, profesor_documento : {d},
            profesor_nombre : NombresCargados(d), periodo : PeriodosCargados,
            tipo_formulario : TiposFormulario, respuestas : {<<>>}] : d \in Documentos}

InitRepositorio ==
    /\ \E n \in 0..MaxCargadas : evaluaciones \in [1..n -> EvaluacionesCargables]
    /\ solicitud = SinSolicitud
    /\ resultado = SinResultado
    /\ _evaluacion_repo = {1}
    /\ _pregunta_repo = {1}
    /\ hilos = SinHilos
    /\ cargas = 1
    /\ memoria = Repositorios(evaluaciones, Catalogo)

\* the frame of a query: it reads the repositories and returns
Consulta(caso, valor) ==
    /\ solicitud = SinSolicitud
    /\ solicitud' = caso
    /\ resultado' = valor
    /\ UNCHANGED <<evaluaciones, proceso>>

FindAll ==
    Consulta([caso |-> "find_all"], EvaluacionRepository_find_all(memoria.evaluacion_repo))

FindById ==
    \E id \in IdsCargados \cup {"3"} :
        Consulta([caso |-> "find_by_id", id |-> id],
                 find_by_id(memoria.evaluacion_repo, id))

FindByProfesor ==
    \E d \in Documentos \cup {"000000"} :
        Consulta([caso |-> "find_by_profesor", documento |-> d],
                 EvaluacionRepository_find_by_profesor(memoria.evaluacion_repo, d))

FindByPeriodo ==
    \E p \in PeriodosCargados :
        Consulta([caso |-> "find_by_periodo", periodo |-> p],
                 find_by_periodo(memoria.evaluacion_repo, p))

FindByProfesorAndPeriodo ==
    \E d \in Documentos : \E p \in PeriodosCargados :
        Consulta([caso |-> "find_by_profesor_and_periodo", documento |-> d, periodo |-> p],
                 find_by_profesor_and_periodo(memoria.evaluacion_repo, d, p))

FindByTipoFormulario ==
    \E t \in TiposFormulario :
        Consulta([caso |-> "find_by_tipo_formulario", tipo |-> t],
                 find_by_tipo_formulario(memoria.evaluacion_repo, t))

GetProfesores ==
    Consulta([caso |-> "get_profesores"], get_profesores(memoria.evaluacion_repo))

GetPeriodosDisponibles ==
    Consulta([caso |-> "get_periodos_disponibles"],
             get_periodos_disponibles(memoria.evaluacion_repo))

GetTiposFormulario ==
    Consulta([caso |-> "get_tipos_formulario"],
             get_tipos_formulario(memoria.evaluacion_repo))

PreguntasFindAll ==
    Consulta([caso |-> "preguntas.find_all"],
             PreguntaRepository_find_all(memoria.pregunta_repo))

PreguntasFindByCodigo ==
    \E c \in Codigos \cup {"P000"} :
        Consulta([caso |-> "preguntas.find_by_codigo", codigo |-> c],
                 find_by_codigo(memoria.pregunta_repo, c))

PreguntasFindByCategoria ==
    \E c \in {"CONDUCCION", "COMPONENTE_PERSONAL", "POSGRADO"} :
        Consulta([caso |-> "preguntas.find_by_categoria", categoria |-> c],
                 find_by_categoria(memoria.pregunta_repo, c))

PreguntasGetCategorias ==
    Consulta([caso |-> "preguntas.get_categorias"], get_categorias(memoria.pregunta_repo))

\* the caller of a query changes the list it was given: an append, the
\* removal of an element, or a reordering
Mutaciones(lista) ==
    (IF lista = <<>> THEN {} ELSE {Append(lista, lista[1])})
        \cup {SubSeq(lista, 1, i - 1) \o SubSeq(lista, i + 1, Len(lista)) : i \in DOMAIN lista}
        \cup {[i \in DOMAIN lista |-> lista[Len(lista) + 1 - i]]}
        \cup {<<>>}

\* the repositories after the list object `objeto` was given the elements
\* `valor`: an internal list changes, a new list is no part of them
Escribir(mem, objeto, valor) ==
    CASE objeto.indice = "_evaluaciones" ->
            [mem EXCEPT !.evaluacion_repo._evaluaciones.valor = valor]
      [] objeto.indice = "_by_profesor" ->
            [mem EXCEPT !.evaluacion_repo._by_profesor[objeto.pos].valor.valor = valor]
      [] objeto.indice = "_by_periodo" ->
            [mem EXCEPT !.evaluacion_repo._by_periodo[objeto.pos].valor.valor = valor]
      [] objeto.indice = "_by_tipo_formulario" ->
            [mem EXCEPT !.evaluacion_repo._by_tipo_formulario[objeto.pos].valor.valor = valor]
      [] objeto.indice = "_preguntas" ->
            [mem EXCEPT !.pregunta_repo._preguntas.valor = valor]
      [] objeto.indice = "_by_categoria" ->
            [mem EXCEPT !.pregunta_repo._by_categoria[objeto.pos].valor.valor = valor]
      [] OTHER -> mem

MutarDevuelta ==
    /\ resultado.tipo = "list"
    /\ IF solicitud.caso = "mutar" THEN solicitud.mutaciones < MaxMutaciones ELSE TRUE
    /\ \E valor \in Mutaciones(resultado.valor) \ {resultado.valor} :
        /\ resultado' = [resultado EXCEPT !.valor = valor]
        /\ memoria' = Escribir(memoria, resultado.objeto, valor)
    /\ solicitud' = [caso |-> "mutar",
                     de |-> IF solicitud.caso = "mutar" THEN solicitud.de ELSE solicitud,
                     mutaciones |-> IF solicitud.caso = "mutar"
                                    THEN solicitud.mutaciones + 1 ELSE 1]
    /\ UNCHANGED <<evaluaciones, _evaluacion_repo, _pregunta_repo, hilos, cargas>>

NextRepositorio ==
    \/ FindAll \/ FindById \/ FindByProfesor \/ FindByPeriodo
    \/ FindByProfesorAndPeriodo \/ FindByTipoFormulario
    \/ GetProfesores \/ GetPeriodosDisponibles \/ GetTiposFormulario
    \/ PreguntasFindAll \/ PreguntasFindByCodigo \/ PreguntasFindByCategoria
    \/ PreguntasGetCategorias
    \/ MutarDevuelta
    \/ Responder
SpecRepositorio == InitRepositorio /\ [][NextRepositorio]_vars

(***************************************************************************)
(* A Profesor under agregar_evaluacion: resultado is the Profesor object,  *)
(* solicitud keeps the evaluations the calls were given, in call order.    *)
(***************************************************************************)
MaxAgregadas == 3

\* the evaluations handed to agregar_evaluacion: ids repeat, with the same or
\* with another content
EvaluacionesAgregables ==
    {e \in EvaluacionesCargables :
        e.profesor_documento = "123456" /\ e.profesor_nombre = "Juan Pérez"}

InitProfesor ==
    /\ evaluaciones = <<>>
    /\ solicitud = [caso |-> "Profesor", llamadas |-> <<>>]
    /\ resultado = [tipo |-> "Profesor", documento |-> "123456",
                    nombre_completo |-> "Juan Pérez", evaluaciones |-> <<>>]
    /\ Inicializado

AgregarEvaluacion ==
    /\ Len(solicitud.llamadas) < MaxAgregadas
    /\ \E evaluacion \in EvaluacionesAgregables :
        /\ resultado' = [resultado EXCEPT
                            !.evaluaciones = agregar_evaluacion(@, evaluacion)]
        /\ solicitud' = [solicitud EXCEPT !.llamadas = Append(@, evaluacion)]
    /\ UNCHANGED <<evaluaciones, proceso>>

NextProfesor == AgregarEvaluacion
SpecProfesor == InitProfesor /\ [][NextProfesor]_vars

(***************************************************************************)
(* api/dependencies.py: the singletons and their providers, run by the     *)
(* startup event and by the threads that resolve the dependencies of the   *)
(* requests. There is no lock; a thread runs one line at a time. A         *)
(* repository is named by the number of the load it was built from.        *)
(***************************************************************************)
MaxHilos == 2
MaxLlamadas == 2

Hilos == 1..MaxHilos

Llamadas == {"initialize_repositories", "get_evaluacion_repository", "get_pregunta_repository"}

Nada == [tipo |-> "nada"]

HiloInactivo == [llamada |-> "ninguna", pc |-> "inactivo", carga |-> 0, llamadas |-> 0,
                 devuelto |-> Nada]

\* the first line of a function
Entrada(llamada) ==
    CASE llamada = "initialize_repositories" -> "linea36"
      [] llamada = "get_evaluacion_repository" -> "linea60"
      [] llamada = "get_pregunta_repository" -> "linea67"

\* where initialize_repositories returns to
Retorno(llamada) ==
    CASE llamada = "initialize_repositories" -> "inactivo"
      [] llamada = "get_evaluacion_repository" -> "linea62"
      [] llamada = "get_pregunta_repository" -> "linea69"

InitInicio ==
    /\ evaluaciones = <<>>
    /\ solicitud = SinSolicitud
    /\ resultado = SinResultado
    /\ _evaluacion_repo = {}
    /\ _pregunta_repo = {}
    /\ hilos = [t \in Hilos |-> HiloInactivo]
    /\ cargas = 0
    /\ memoria = SinMemoria

\* startup_event, or the resolution of a dependency, enters a function
Llamar(t) ==
    /\ hilos[t].pc = "inactivo"
    /\ hilos[t].llamadas < MaxLlamadas
    /\ \E llamada \in Llamadas :
          hilos' = [hilos EXCEPT ![t] = [llamada |-> llamada, pc |-> Entrada(llamada),
                                         carga |-> 0, llamadas |-> @.llamadas + 1,
                                         devuelto |-> Nada]]
    /\ UNCHANGED <<evaluaciones, solicitud, resultado, _evaluacion_repo, _pregunta_repo,
                   cargas, memoria>>

\* get_evaluacion_repository: if _evaluacion_repo is None
ComprobarEvaluacionRepo(t) ==
    /\ hilos[t].pc = "linea60"
    /\ hilos' = [hilos EXCEPT ![t].pc = IF _evaluacion_repo = {} THEN "linea36" ELSE "linea62"]
    /\ UNCHANGED <<evaluaciones, solicitud, resultado, _evaluacion_repo, _pregunta_repo,
                   cargas, memoria>>

\* get_pregunta_repository: if _pregunta_repo is None
ComprobarPreguntaRepo(t) ==
    /\ hilos[t].pc = "linea67"
    /\ hilos' = [hilos EXCEPT ![t].pc = IF _pregunta_repo = {} THEN "linea36" ELSE "linea69"]
    /\ UNCHANGED <<evaluaciones, solicitud, resultado, _evaluacion_repo, _pregunta_repo,
                   cargas, memoria>>

\* initialize_repositories: if both are set, return
ComprobarInicializados(t) ==
    /\ hilos[t].pc = "linea36"
    /\ hilos' = [hilos EXCEPT ![t].pc =
                    IF _evaluacion_repo # {} /\ _pregunta_repo # {}
                    THEN Retorno(hilos[t].llamada)
                    ELSE "linea48"]
    /\ UNCHANGED <<evaluaciones, solicitud, resultado, _evaluacion_repo, _pregunta_repo,
                   cargas, memoria>>

\* initialize_repositories building the evaluation repository before the
\* load of the questions has ended: a failure leaves one singleton set
CargarTodo_asignando_antes_de_fallar(t) ==
    /\ hilos[t].pc = "linea48"
    /\ \E cargado \in BOOLEAN :
          IF cargado
          THEN /\ cargas' = cargas + 1
               /\ hilos' = [hilos EXCEPT ![t].pc = "linea51", ![t].carga = cargas + 1]
               /\ UNCHANGED _evaluacion_repo
          ELSE /\ cargas' = cargas + 1
               /\ _evaluacion_repo' = {cargas + 1}
               /\ hilos' = [hilos EXCEPT ![t].pc = "inactivo",
                                         ![t].devuelto = [tipo |-> "DataParsingError"]]
    /\ UNCHANGED <<evaluaciones, solicitud, resultado, _pregunta_repo, memoria>>

\* get_settings(), the loader and loader.load_all(), which returns the data
\* or raises DataParsingError; the exception leaves every function
CargarTodo(t) ==
    /\ hilos[t].pc = "linea48"
    /\ \E cargado \in BOOLEAN :
          IF cargado
          THEN /\ cargas' = cargas + 1
               /\ hilos' = [hilos EXCEPT ![t].pc = "linea51", ![t].carga = cargas + 1]
          ELSE /\ cargas' = cargas
               /\ hilos' = [hilos EXCEPT ![t].pc = "inactivo",
                                         ![t].devuelto = [tipo |-> "DataParsingError"]]
    /\ UNCHANGED <<evaluaciones, solicitud, resultado, _evaluacion_repo, _pregunta_repo,
                   memoria>>

\* _evaluacion_repo = PandasEvaluacionRepository(evaluaciones)
AsignarEvaluacionRepo(t) ==
    /\ hilos[t].pc = "linea51"
    /\ _evaluacion_repo' = {hilos[t].carga}
    /\ hilos' = [hilos EXCEPT ![t].pc = "linea52"]
    /\ UNCHANGED <<evaluaciones, solicitud, resultado, _pregunta_repo, cargas, memoria>>

\* _pregunta_repo = PandasPreguntaRepository(preguntas), and the return
AsignarPreguntaRepo(t) ==
    /\ hilos[t].pc = "linea52"
    /\ _pregunta_repo' = {hilos[t].carga}
    /\ hilos' = [hilos EXCEPT ![t].pc = Retorno(hilos[t].llamada)]
    /\ UNCHANGED <<evaluaciones, solicitud, resultado, _evaluacion_repo, cargas, memoria>>

\* return _evaluacion_repo
RetornarEvaluacionRepo(t) ==
    /\ hilos[t].pc = "linea62"
    /\ hilos' = [hilos EXCEPT ![t].pc = "inactivo",
                              ![t].devuelto = [tipo |-> "repo", valor |-> _evaluacion_repo]]
    /\ UNCHANGED <<evaluaciones, solicitud, resultado, _evaluacion_repo, _pregunta_repo,
                   cargas, memoria>>

\* return _pregunta_repo
RetornarPreguntaRepo(t) ==
    /\ hilos[t].pc = "linea69"
    /\ hilos' = [hilos EXCEPT ![t].pc = "inactivo",
                              ![t].devuelto = [tipo |-> "repo", valor |-> _pregunta_repo]]
    /\ UNCHANGED <<evaluaciones, solicitud, resultado, _evaluacion_repo, _pregunta_repo,
                   cargas, memoria>>

NextInicio ==
    \E t \in Hilos :
        \/ Llamar(t)
        \/ ComprobarEvaluacionRepo(t)
        \/ ComprobarPreguntaRepo(t)
        \/ ComprobarInicializados(t)
        \/ CargarTodo(t)
        \/ AsignarEvaluacionRepo(t)
        \/ AsignarPreguntaRepo(t)
        \/ RetornarEvaluacionRepo(t)
        \/ RetornarPreguntaRepo(t)
SpecInicio == InitInicio /\ [][NextInicio]_vars

(***************************************************************************)
(* The three use cases and get_profesores on one repository whose rows     *)
(* carry the NOMBRE_PROFESOR of their own file: the rows of one document   *)
(* need not agree on the name.                                             *)
(***************************************************************************)
\* the rows _crear_evaluacion can give, with a rated answer
FilasConNombre ==
    UNION {[profesor_documento : {d}, profesor_nombre : NombresCargados(d),
            periodo : Periodos, tipo_formulario : {"ESTUDIANTE V3"},
            respuestas : {<<[pregunta |-> "P148", cal |-> {v}]>> : v \in {30, 50}}] :
           d \in Documentos}

InitNombre ==
    /\ \E n \in 0..MaxEvaluaciones :
          \E filas \in [1..n -> FilasConNombre] :
              evaluaciones = [i \in 1..n |->
                  [id |-> IF i = 1 THEN "1" ELSE "2",
                   profesor_documento |-> filas[i].profesor_documento,
                   profesor_nombre |-> filas[i].profesor_nombre,
                   periodo |-> filas[i].periodo,
                   tipo_formulario |-> filas[i].tipo_formulario,
                   respuestas |-> filas[i].respuestas]]
    /\ solicitud = SinSolicitud
    /\ resultado = SinResultado
    /\ _evaluacion_repo = {1}
    /\ _pregunta_repo = {1}
    /\ hilos = SinHilos
    /\ cargas = 1
    /\ memoria = Repositorios(evaluaciones, Catalogo)

\* GET /profesores/{documento}/detalle
ObtenerDetalle ==
    /\ solicitud = SinSolicitud
    /\ \E request \in Solicitudes :
        /\ solicitud' = [caso |-> "detalle", documento |-> request.documento,
                         periodo |-> request.periodo]
        /\ resultado' = ObtenerDetalleEvaluacion_execute(evaluaciones, request)
    /\ UNCHANGED <<evaluaciones, proceso>>

NextNombre ==
    CalcularPromedio \/ ObtenerDetalle \/ ObtenerPropuestaMejora \/ GetProfesores \/ Responder

SpecNombre == InitNombre /\ [][NextNombre]_vars

(***************************************************************************)
(* GET /profesores/export-all-pdfs: the loop over get_profesores inside    *)
(* the handler's try, and its except clause.                               *)
(***************************************************************************)
\* str(e) of the HTTPException the handler raises for an empty list
StrHTTP(e) == <<"404: ">> \o e.detail

\* one turn of the loop: the entry written to the ZIP, or nothing when the
\* inner except clause caught an exception. The entry is named by the
\* document and the name of the Profesor.
EntradaDelZip(evs, profesor, periodo, pdf_file) ==
    LET promedios == CalcularPromedioProfesor_execute(
                         evs, [documento |-> profesor.documento, periodo |-> periodo])
        mejoras == ObtenerPropuestaMejora_execute(
                       evs, [documento |-> profesor.documento, periodo |-> periodo])
    IN  IF EsExcepcion(promedios) \/ EsExcepcion(mejoras) \/ EsExcepcion(pdf_file)
        THEN <<>>
        ELSE <<[documento |-> profesor.documento,
                nombre_completo |-> profesor.nombre_completo]>>

RECURSIVE EntradasDelZip(_, _, _, _)
EntradasDelZip(evs, profesores_, periodo, pdfs) ==
    IF profesores_ = <<>> THEN <<>>
    ELSE EntradaDelZip(evs, Head(profesores_), periodo, pdfs[Head(profesores_).documento])
             \o EntradasDelZip(evs, Tail(profesores_), periodo, pdfs)

\* pdfs is what generate_profesor_report ends with for each teacher it is
\* reached for
exportar_todos_pdfs(repo, evs, periodo, pdfs) ==
    LET profesores_ == get_profesores(repo).valor
    IN  IF profesores_ = <<>>
        THEN HTTPException(500,
                 <<"Error generando PDFs: ">>
                     \o StrHTTP(HTTPException(404, <<"No hay profesores para exportar">>)))
        ELSE RespuestaHTTP([tipo |-> "ZIP",
                            archivos |-> EntradasDelZip(evs, profesores_, periodo, pdfs)])

GetExportAllPdfs ==
    /\ solicitud = SinSolicitud
    /\ \E periodo \in PeriodosDeSolicitud : \E pdfs \in [Documentos -> ResultadosDePDF] :
        /\ solicitud' = [caso |-> "GET /export-all-pdfs", periodo |-> periodo, pdfs |-> pdfs]
        /\ resultado' = exportar_todos_pdfs(memoria.evaluacion_repo, evaluaciones, periodo, pdfs)
    /\ UNCHANGED <<evaluaciones, proceso>>

NextExportar == GetExportAllPdfs \/ Responder

SpecExportar == InitNombre /\ [][NextExportar]_vars

(***************************************************************************)
(* CalcularPromedioProfesorUseCase.execute called again and again on the   *)
(* repository object: the lists it reads and the lists it binds.           *)
(***************************************************************************)
MaxRepeticiones == 3

\* execute filtering, in place, the list the teacher index holds
EjecutarEnMemoria_filtrando_la_lista_del_indice(mem, request) ==
    LET evaluaciones_ == get_lista(mem.evaluacion_repo._by_profesor, request.documento)
        filtradas == IF Dado(request.periodo) /\ PeriodoValido(ValorDe(request.periodo))
                     THEN FiltrarPorPeriodo(evaluaciones_.valor, ValorDe(request.periodo))
                     ELSE evaluaciones_.valor
    IN  [respuesta |-> CalcularPromedioProfesor_execute(evaluaciones_.valor, request),
         memoria |-> Escribir(mem, evaluaciones_.objeto, filtradas)]

\* execute: `evaluaciones` is first the list find_by_profesor returns, then
\* the list the comprehension of step 2 builds; the response is computed
\* from it and the method writes to no other list
EjecutarEnMemoria(mem, request) ==
    LET evaluaciones_ == EvaluacionRepository_find_by_profesor(
                             mem.evaluacion_repo, request.documento)
        filtradas == IF Dado(request.periodo) /\ PeriodoValido(ValorDe(request.periodo))
                     THEN Lista(Nueva, FiltrarPorPeriodo(evaluaciones_.valor,
                                                         ValorDe(request.periodo)))
                     ELSE evaluaciones_
    IN  [respuesta |-> CalcularPromedioProfesor_execute(evaluaciones_.valor, request),
         memoria |-> Escribir(mem, filtradas.objeto, filtradas.valor)]

\* one more call of execute with the request of the calls before it
EjecutarPromedio ==
    /\ \E request \in Solicitudes :
        /\ solicitud = SinSolicitud
              \/ /\ solicitud # SinSolicitud
                 /\ solicitud.llamadas < MaxRepeticiones
                 /\ request = [documento |-> solicitud.documento, periodo |-> solicitud.periodo]
        /\ LET r == EjecutarEnMemoria(memoria, request)
           IN  /\ resultado' = r.respuesta
               /\ memoria' = r.memoria
               /\ solicitud' = [caso |-> "execute",
                                documento |-> request.documento,
                                periodo |-> request.periodo,
                                llamadas |-> IF solicitud = SinSolicitud THEN 1
                                             ELSE solicitud.llamadas + 1,
                                primera |-> IF solicitud = SinSolicitud THEN r.respuesta
                                            ELSE solicitud.primera]
    /\ UNCHANGED <<evaluaciones, _evaluacion_repo, _pregunta_repo, hilos, cargas>>

NextRepetir == EjecutarPromedio \/ Responder

SpecRepetir == InitNombre /\ [][NextRepetir]_vars

(***************************************************************************)
(* Ingestion: EvaluacionCSVParser and EvaluacionDataLoader.load_all on a   *)
(* data directory. The questions file is readable and gives the catalog;   *)
(* the evaluation files have the column P148.                              *)
(***************************************************************************)
MaxArchivos == 2
MaxFilas == 2

\* str.strip()
RECURSIVE strip(_)
strip(s) ==
    IF s = <<>> THEN s
    ELSE IF Head(s) \in {" ", "\n"} THEN strip(Tail(s))
    ELSE IF s[Len(s)] \in {" ", "\n"} THEN strip(SubSeq(s, 1, Len(s) - 1))
    ELSE s

\* a cell of a rating column as pandas reads it: NaN, a number (in tenths),
\* or a text float() rejects
Celdas ==
    {[tipo |-> "nan"], [tipo |-> "numero", valor |-> 40], [tipo |-> "numero", valor |-> 60],
     [tipo |-> "texto"]}

\* the rows of an evaluation file
FilasDelCsv ==
    [PEGE_ID : {"1"}, DOCUMENTO : {"123456"}, NOMBRECOMPLETO : {"Juan Pérez"},
     PERIODO : {<<"2","0","2","5","-","2">>, <<"2","0","2","5","-","1"," ">>,
                <<"2","0","2","5","-","3">>},
     FORMULARIO : {"ESTUDIANTE V3"}, P148 : Celdas]

\* _parse_calificacion: None for NaN and for what float() rejects; the
\* InvalidCalificacionError of Calificacion is not caught here
_parse_calificacion(valor) ==
    IF valor.tipo = "nan" THEN [tipo |-> "Optional", valor |-> {}]
    ELSE IF valor.tipo = "texto" THEN [tipo |-> "Optional", valor |-> {}]
    ELSE LET c == Calificacion(valor.valor)
         IN  IF c.tipo = "InvalidCalificacionError" THEN c
             ELSE [tipo |-> "Optional", valor |-> {c.valor}]

\* _crear_evaluacion: the Evaluacion of a row, or the exception it raises
_crear_evaluacion(row) ==
    LET calificacion == _parse_calificacion(row.P148)
    IN  IF ~PeriodoValido(strip(row.PERIODO)) THEN ValueError
        ELSE IF calificacion.tipo = "InvalidCalificacionError" THEN calificacion
        ELSE [id |-> row.PEGE_ID,
              profesor_documento |-> row.DOCUMENTO,
              profesor_nombre |-> row.NOMBRECOMPLETO,
              periodo |-> strip(row.PERIODO),
              tipo_formulario |-> row.FORMULARIO,
              respuestas |-> <<[pregunta |-> "P148", cal |-> calificacion.valor]>>]

\* a file of the directory: one pd.read_csv cannot read, or its rows
Archivos ==
    {[tipo |-> "ilegible"]}
        \cup {[tipo |-> "csv", filas |-> filas] :
                 filas \in UNION {[1..n -> FilasDelCsv] : n \in 0..MaxFilas}}

\* the files _find_evaluacion_files gives, sorted by name
Directorios == UNION {[1..n -> Archivos] : n \in 0..MaxArchivos}

\* EvaluacionCSVParser.parse: every row _crear_evaluacion builds, in order;
\* a row that raises is logged and left out
RECURSIVE parse_filas(_)
parse_filas(filas) ==
    IF filas = <<>> THEN <<>>
    ELSE LET evaluacion == _crear_evaluacion(Head(filas))
         IN  (IF "tipo" \in DOMAIN evaluacion THEN <<>> ELSE <<evaluacion>>)
                 \o parse_filas(Tail(filas))

DataParsingError(details) == [tipo |-> "DataParsingError", details |-> details]

\* load() and parse() of one file
parse(archivo) ==
    IF archivo.tipo = "ilegible" THEN DataParsingError("read_csv")
    ELSE [tipo |-> "list", valor |-> parse_filas(archivo.filas)]

\* step 3 of load_all: the loop over the files; the first file that cannot
\* be read ends it with its DataParsingError
RECURSIVE cargar_archivos(_, _)
cargar_archivos(evaluacion_files, todas_evaluaciones) ==
    IF evaluacion_files = <<>> THEN [tipo |-> "list", valor |-> todas_evaluaciones]
    ELSE LET evaluaciones_ == parse(Head(evaluacion_files))
         IN  IF evaluaciones_.tipo = "DataParsingError" THEN evaluaciones_
             ELSE cargar_archivos(Tail(evaluacion_files),
                                  todas_evaluaciones \o evaluaciones_.valor)

load_all(evaluacion_files) ==
    IF evaluacion_files = <<>>
    THEN DataParsingError("No se encontraron archivos de evaluación (Evaluacion*.csv)")
    ELSE LET todas_evaluaciones == cargar_archivos(evaluacion_files, <<>>)
         IN  IF todas_evaluaciones.tipo = "DataParsingError" THEN todas_evaluaciones
             ELSE [tipo |-> "tuple", evaluaciones |-> todas_evaluaciones.valor,
                   preguntas |-> Catalogo]

InitCarga ==
    /\ evaluaciones = <<>>
    /\ solicitud = SinSolicitud
    /\ resultado = SinResultado
    /\ _evaluacion_repo = {}
    /\ _pregunta_repo = {}
    /\ hilos = SinHilos
    /\ cargas = 0
    /\ memoria = SinMemoria

LoadAll ==
    /\ solicitud = SinSolicitud
    /\ \E directorio \in Directorios :
        /\ solicitud' = [caso |-> "load_all", directorio |-> directorio]
        /\ resultado' = load_all(directorio)
    /\ UNCHANGED <<evaluaciones, proceso>>

NextCarga == LoadAll \/ Responder

SpecCarga == InitCarga /\ [][NextCarga]_vars

(***************************************************************************)
(* The use-case factories of api/dependencies.py that take both            *)
(* repositories, run by the threads next to the calls of SpecInicio.       *)
(* solicitud holds the frame of the factory each thread is in.             *)
(***************************************************************************)
MaxFabricas == 1

Fabricas == {"get_detalle_evaluacion_use_case", "get_propuesta_mejora_use_case"}

FueraDeFabrica == [fabrica |-> "ninguna", linea |-> "fuera", evaluacion_repo |-> Nada,
                   caso_de_uso |-> Nada, fabricas |-> 0]

InitFabrica ==
    /\ evaluaciones = <<>>
    /\ solicitud = [t \in Hilos |-> FueraDeFabrica]
    /\ resultado = SinResultado
    /\ _evaluacion_repo = {}
    /\ _pregunta_repo = {}
    /\ hilos = [t \in Hilos |-> HiloInactivo]
    /\ cargas = 0
    /\ memoria = SinMemoria

\* the resolution of Depends(factory): the factory is entered and its first
\* line calls get_evaluacion_repository
LlamarFabrica(t) ==
    /\ hilos[t].pc = "inactivo"
    /\ solicitud[t].fabrica = "ninguna"
    /\ solicitud[t].fabricas < MaxFabricas
    /\ \E fabrica \in Fabricas :
          solicitud' = [solicitud EXCEPT ![t] =
                            [fabrica |-> fabrica, linea |-> "evaluacion_repo",
                             evaluacion_repo |-> Nada, caso_de_uso |-> Nada,
                             fabricas |-> @.fabricas + 1]]
    /\ hilos' = [hilos EXCEPT ![t] = [llamada |-> "get_evaluacion_repository",
                                      pc |-> Entrada("get_evaluacion_repository"),
                                      carga |-> 0, llamadas |-> @.llamadas,
                                      devuelto |-> Nada]]
    /\ UNCHANGED <<evaluaciones, resultado, _evaluacion_repo, _pregunta_repo, cargas, memoria>>

\* evaluacion_repo = get_evaluacion_repository() has returned; the next line
\* calls get_pregunta_repository
RecibirEvaluacionRepo(t) ==
    /\ solicitud[t].linea = "evaluacion_repo"
    /\ hilos[t].pc = "inactivo"
    /\ hilos[t].devuelto.tipo = "repo"
    /\ solicitud' = [solicitud EXCEPT ![t].evaluacion_repo = hilos[t].devuelto,
                                      ![t].linea = "pregunta_repo"]
    /\ hilos' = [hilos EXCEPT ![t] = [llamada |-> "get_pregunta_repository",
                                      pc |-> Entrada("get_pregunta_repository"),
                                      carga |-> 0, llamadas |-> @.llamadas,
                                      devuelto |-> Nada]]
    /\ UNCHANGED <<evaluaciones, resultado, _evaluacion_repo, _pregunta_repo, cargas, memoria>>

\* pregunta_repo = get_pregunta_repository() has returned:
\* return UseCase(evaluacion_repo, pregunta_repo)
ConstruirCasoDeUso(t) ==
    /\ solicitud[t].linea = "pregunta_repo"
    /\ hilos[t].pc = "inactivo"
    /\ hilos[t].devuelto.tipo = "repo"
    /\ solicitud' = [solicitud EXCEPT ![t] =
                        [fabrica |-> "ninguna", linea |-> "fuera", evaluacion_repo |-> Nada,
                         caso_de_uso |-> [tipo |-> solicitud[t].fabrica,
                                          _evaluacion_repo |-> solicitud[t].evaluacion_repo.valor,
                                          _pregunta_repo |-> hilos[t].devuelto.valor],
                         fabricas |-> @.fabricas]]
    /\ UNCHANGED <<evaluaciones, resultado, proceso>>

\* a provider raised: the exception leaves the factory
PropagarError(t) ==
    /\ solicitud[t].fabrica # "ninguna"
    /\ hilos[t].pc = "inactivo"
    /\ hilos[t].devuelto.tipo = "DataParsingError"
    /\ solicitud' = [solicitud EXCEPT ![t] =
                        [fabrica |-> "ninguna", linea |-> "fuera", evaluacion_repo |-> Nada,
                         caso_de_uso |-> hilos[t].devuelto, fabricas |-> @.fabricas]]
    /\ UNCHANGED <<evaluaciones, resultado, proceso>>

\* startup_event or a provider resolved on its own, by a thread that is in
\* no factory
LlamarFuera(t) ==
    /\ solicitud[t].fabrica = "ninguna"
    /\ Llamar(t)

NextFabrica ==
    \E t \in Hilos :
        \/ LlamarFuera(t)
        \/ LlamarFabrica(t)
        \/ RecibirEvaluacionRepo(t)
        \/ ConstruirCasoDeUso(t)
        \/ PropagarError(t)
        \/ ComprobarEvaluacionRepo(t)
        \/ ComprobarPreguntaRepo(t)
        \/ ComprobarInicializados(t)
        \/ CargarTodo(t)
        \/ AsignarEvaluacionRepo(t)
        \/ AsignarPreguntaRepo(t)
        \/ RetornarEvaluacionRepo(t)
        \/ RetornarPreguntaRepo(t)

SpecFabrica == InitFabrica /\ [][NextFabrica]_vars

(***************************************************************************)
(* Vocabulary of the properties. The figures are restated here over sets   *)
(* of positions of the loaded collection, with plain integer arithmetic:   *)
(* a fraction is a pair <<n, d>>, d > 0, not reduced, and two fractions    *)
(* are compared by cross-multiplication.                                   *)
(***************************************************************************)
Igual(p, q) == p[1] * q[2] = q[1] * p[2]
Menor(p, q) == p[1] * q[2] < q[1] * p[2]

RECURSIVE Suma(_, _)
Suma(f, S) ==
    IF S = {} THEN 0
    ELSE LET x == CHOOSE y \in S : TRUE IN f[x] + Suma(f, S \ {x})

\* the sum of the fractions f[x], x in S
RECURSIVE SumaFrac(_, _)
SumaFrac(f, S) ==
    IF S = {} THEN <<0, 1>>
    ELSE LET x == CHOOSE y \in S : TRUE
             r == SumaFrac(f, S \ {x})
         IN  <<f[x][1] * r[2] + r[1] * f[x][2], f[x][2] * r[2]>>

\* the arithmetic mean of the fractions f[x], x in S, S not empty
MediaFrac(f, S) == <<SumaFrac(f, S)[1], SumaFrac(f, S)[2] * Cardinality(S)>>

CategoriaDeCodigo(c) == (CHOOSE p \in Range(Catalogo) : p.codigo = c).categoria

\* the answers of evaluation i: pairs <<code, rating>> of its answered questions
Contestadas(i) ==
    {<<it.pregunta, CHOOSE v \in it.cal : TRUE>> :
        it \in {x \in Range(evaluaciones[i].respuestas) : x.cal # {}}}

\* the answered ratings of evaluation i outside Comments
Puntuadas(i) == {a \in Contestadas(i) : CategoriaDeCodigo(a[1]) # "COMENTARIOS"}

\* the answered ratings of evaluation i in category c
PuntuadasEn(i, c) == {a \in Contestadas(i) : CategoriaDeCodigo(a[1]) = c}

\* the mean of a set of answers, 0.0 for none
MediaDe(A) ==
    IF A = {} THEN <<0, 1>> ELSE <<Suma([a \in A |-> a[2]], A), Cardinality(A)>>

\* the evaluations of the requested teacher, and those of a period among them
DelProfesor == {i \in DOMAIN evaluaciones :
                   evaluaciones[i].profesor_documento = solicitud.documento}
DelPeriodo(p) == {i \in DelProfesor : evaluaciones[i].periodo = p}

\* the request names a period: a non-empty string of the shape YYYY-S
PidePeriodo ==
    /\ solicitud.periodo # {}
    /\ \A p \in solicitud.periodo : p # <<>> /\ PeriodoValido(p)

\* the evaluations that pass the teacher and period filter of the request
Pasan ==
    IF PidePeriodo THEN DelPeriodo(CHOOSE p \in solicitud.periodo : TRUE)
    ELSE DelProfesor

RespondePromedios ==
    solicitud.caso = "promedios" /\ resultado.tipo = "PromedioProfesorResponse"

RespondeMejoras ==
    solicitud.caso = "mejoras" /\ resultado.tipo = "PropuestaMejoraResponse"

NoComentarios == Categoria \ {"COMENTARIOS"}

\* promedio_general is the mean of the per-evaluation means of the set I
GeneralCorrecto(I) ==
    Igual(resultado.promedio_general,
          MediaFrac([i \in I |-> MediaDe(Puntuadas(i))], I))

\* the per-category list has one entry for each category answered in I, with
\* the mean of the category means of the evaluations that answered it
ConCategoria(I, c) == {i \in I : PuntuadasEn(i, c) # {}}

CategoriasCorrectas(I) ==
    LET lista == resultado.promedios_por_categoria
    IN  /\ {lista[k].categoria : k \in DOMAIN lista}
              = {CategoriaValue[c] : c \in {x \in NoComentarios : ConCategoria(I, x) # {}}}
        /\ \A k, l \in DOMAIN lista : lista[k].categoria = lista[l].categoria => k = l
        /\ \A k \in DOMAIN lista : \A c \in NoComentarios :
              lista[k].categoria = CategoriaValue[c] =>
                  /\ lista[k].total_evaluaciones = Cardinality(ConCategoria(I, c))
                  /\ Igual(lista[k].promedio,
                           MediaFrac([i \in ConCategoria(I, c) |-> MediaDe(PuntuadasEn(i, c))],
                                     ConCategoria(I, c)))

\* the per-evaluator-type list has one entry for each label with a member of
\* non-zero mean, over those members
ConActor(I, t) ==
    {i \in I : evaluaciones[i].tipo_formulario = t /\ MediaDe(Puntuadas(i))[1] # 0}

ActoresCorrectos(I) ==
    LET lista == resultado.promedios_por_actor
    IN  /\ {lista[k].actor : k \in DOMAIN lista}
              = {t \in TiposFormulario : ConActor(I, t) # {}}
        /\ \A k, l \in DOMAIN lista : lista[k].actor = lista[l].actor => k = l
        /\ \A k \in DOMAIN lista :
              /\ lista[k].total_evaluaciones = Cardinality(ConActor(I, lista[k].actor))
              /\ Igual(lista[k].promedio,
                       MediaFrac([i \in ConActor(I, lista[k].actor) |-> MediaDe(Puntuadas(i))],
                                 ConActor(I, lista[k].actor)))

(***************************************************************************)
(* C1. Whenever the Average Calculator answers, promedio_general is the    *)
(* arithmetic mean of the per-evaluation means of the evaluations that     *)
(* passed the teacher and period filter: each evaluation weighs the same,  *)
(* its mean is taken over its answered ratings outside Comments, and an    *)
(* evaluation with no such rating counts as 0.0 in the mean.               *)
(***************************************************************************)
C1_MediaDeMedias == RespondePromedios => GeneralCorrecto(Pasan)

\* an answer over two evaluations, one without any rating and one with two
C1_Testigo ==
    /\ RespondePromedios
    /\ \E i, j \in Pasan : Puntuadas(i) = {} /\ Cardinality(Puntuadas(j)) = 2

(***************************************************************************)
(* C2. Whenever the Average Calculator answers, the per-category list has  *)
(* exactly one entry for each category other than Comments in which some   *)
(* evaluation has an answered rating, and no other entry; the average of   *)
(* an entry is the mean of the category means of the evaluations with an   *)
(* answered rating in that category, and its count is their number.        *)
(***************************************************************************)
C2_PorCategoria == RespondePromedios => CategoriasCorrectas(Pasan)

\* an answer with an entry for a category that one of the evaluations holds
\* a question of but did not answer
C2_Testigo ==
    /\ RespondePromedios
    /\ \E c \in NoComentarios : \E i, j \in Pasan :
          /\ PuntuadasEn(i, c) # {}
          /\ PuntuadasEn(j, c) = {}
          /\ \E it \in Range(evaluaciones[j].respuestas) : CategoriaDeCodigo(it.pregunta) = c

(***************************************************************************)
(* C3. Whenever the Average Calculator answers, the per-evaluator-type     *)
(* list groups the evaluations by their tipo_formulario label: the average *)
(* of a label is the mean of the overall means of its evaluations whose    *)
(* mean is not 0.0, its count is the number of those evaluations, and a    *)
(* label whose evaluations all have mean 0.0 has no entry.                 *)
(***************************************************************************)
C3_PorActor == RespondePromedios => ActoresCorrectos(Pasan)

\* an answer over two labels, one of which has only an evaluation of mean 0.0
C3_Testigo ==
    /\ RespondePromedios
    /\ resultado.promedios_por_actor # <<>>
    /\ \E i \in Pasan : ConActor(Pasan, evaluaciones[i].tipo_formulario) = {}

(***************************************************************************)
(* Vocabulary of the Comments, period and plan properties.                 *)
(***************************************************************************)
\* the request as the use cases receive it
Peticion == [documento |-> solicitud.documento, periodo |-> solicitud.periodo]

\* the loaded collection with every Comments question taken out of every
\* evaluation: what is common to all the collections that differ from it only
\* in the answers given to Comments questions
SinComentarios(evs) ==
    Map(evs, LAMBDA e :
        [e EXCEPT !.respuestas =
            SelectSeq(e.respuestas, LAMBDA it : CategoriaDeCodigo(it.pregunta) # "COMENTARIOS")])

\* the four figures of the response are those of the set I
FigurasSobre(I) ==
    /\ resultado.total_evaluaciones = Cardinality(I)
    /\ GeneralCorrecto(I)
    /\ CategoriasCorrectas(I)
    /\ ActoresCorrectos(I)

\* the example: one evaluation of the teacher in 2025-1 with the one rating
\* 3.0, one in 2025-2 with the one rating 5.0
EsElEjemplo ==
    /\ Cardinality(DelProfesor) = 2
    /\ \E i, j \in DelProfesor :
          /\ evaluaciones[i].periodo = <<"2","0","2","5","-","1">>
          /\ {a[2] : a \in Puntuadas(i)} = {30} /\ Cardinality(Puntuadas(i)) = 1
          /\ evaluaciones[j].periodo = <<"2","0","2","5","-","2">>
          /\ {a[2] : a \in Puntuadas(j)} = {50} /\ Cardinality(Puntuadas(j)) = 1

\* s ends with t
TerminaEn(s, t) ==
    Len(s) >= Len(t) /\ SubSeq(s, Len(s) - Len(t) + 1, Len(s)) = t

\* the evaluations the Recommendation Engine works on: those of the teacher,
\* and of the period string when the request has one
PasanMejoras ==
    IF solicitud.periodo \notin {{}, {<<>>}}
    THEN DelPeriodo(CHOOSE p \in solicitud.periodo : TRUE)
    ELSE DelProfesor

\* the answered ratings of category c (of question q) in the evaluations I,
\* each <<evaluation, code, rating>>
RatingsDeCategoria(I, c) ==
    UNION {{<<i, a[1], a[2]>> : a \in PuntuadasEn(i, c)} : i \in I}
RatingsDePregunta(I, q) ==
    UNION {{<<i, a[1], a[2]>> : a \in {b \in Contestadas(i) : b[1] = q}} : i \in I}

\* the flat mean of a non-empty set of ratings
MediaPlana(R) == <<Suma([r \in R |-> r[3]], R), Cardinality(R)>>

CuatroPuntoCero == <<40, 1>>

\* R is not empty and its flat mean is strictly below 4.0
Baja(R) == R # {} /\ Menor(MediaPlana(R), CuatroPuntoCero)

PreguntasDe(c) == {q \in Codigos : CategoriaDeCodigo(q) = c}

\* the category of a plan entry
CategoriaDeEtiqueta(etiqueta) == CHOOSE c \in Categoria : CategoriaValue[c] = etiqueta

(***************************************************************************)
(* C4. Comments answers never reach a figure. Whatever the Comments        *)
(* questions of the loaded evaluations hold (no answer, an empty answer or *)
(* any rating), the outcome of the Average Calculator and the Improvement  *)
(* Plan are the ones of the same collection without its Comments           *)
(* questions; hence two collections that differ only in their Comments     *)
(* answers get identical outcomes. And no per-category entry and no plan   *)
(* entry is ever labelled Comments.                                        *)
(***************************************************************************)
C4_ComentariosExcluidos ==
    /\ solicitud.caso = "promedios" =>
          /\ resultado = CalcularPromedioProfesor_execute(SinComentarios(evaluaciones), Peticion)
          /\ resultado.tipo = "PromedioProfesorResponse" =>
                \A k \in DOMAIN resultado.promedios_por_categoria :
                    resultado.promedios_por_categoria[k].categoria # CategoriaValue["COMENTARIOS"]
    /\ solicitud.caso = "mejoras" =>
          /\ resultado = ObtenerPropuestaMejora_execute(SinComentarios(evaluaciones), Peticion)
          /\ resultado.tipo = "PropuestaMejoraResponse" =>
                \A k \in DOMAIN resultado.categorias_a_mejorar :
                    resultado.categorias_a_mejorar[k].categoria # CategoriaValue["COMENTARIOS"]

\* an answer of the Average Calculator over an evaluation that holds a rating
\* for a Comments question next to a different rating for another question
C4_Testigo ==
    /\ RespondePromedios
    /\ \E i \in Pasan : \E a \in Contestadas(i) : \E b \in Puntuadas(i) :
          CategoriaDeCodigo(a[1]) = "COMENTARIOS" /\ a[2] # b[2]

(***************************************************************************)
(* C5. When the request names a period, every figure of the answer of the  *)
(* Average Calculator is computed over exactly the evaluations of the      *)
(* teacher whose period equals it, and total_evaluaciones is their number; *)
(* when the request names no period, over all the evaluations of the       *)
(* teacher. With 3.0 in 2025-1 and 5.0 in 2025-2, period 2025-2 gives 5.0  *)
(* and a total of 1, and no period gives 4.0 and a total of 2.             *)
(***************************************************************************)
C5_FiltroDePeriodo ==
    RespondePromedios =>
        /\ \A p \in solicitud.periodo : PeriodoValido(p) => FigurasSobre(DelPeriodo(p))
        /\ solicitud.periodo = {} => FigurasSobre(DelProfesor)
        /\ EsElEjemplo =>
              /\ solicitud.periodo = {<<"2","0","2","5","-","2">>} =>
                    /\ Igual(resultado.promedio_general, <<50, 1>>)
                    /\ resultado.total_evaluaciones = 1
              /\ solicitud.periodo = {} =>
                    /\ Igual(resultado.promedio_general, <<40, 1>>)
                    /\ resultado.total_evaluaciones = 2

\* the example answered for period 2025-2
C5_Testigo ==
    /\ RespondePromedios
    /\ EsElEjemplo
    /\ solicitud.periodo = {<<"2","0","2","5","-","2">>}

(***************************************************************************)
(* C6. The Average Calculator ends with ProfesorNotFoundError, and with no *)
(* response, when the teacher has no evaluation, and when the request      *)
(* names a period that none of the evaluations of the teacher has. The     *)
(* second error differs from the one the first case gives for the same     *)
(* document, and it carries the document id and the requested period.      *)
(***************************************************************************)
C6_ProfesorNoEncontrado ==
    solicitud.caso = "promedios" =>
        /\ DelProfesor = {} =>
              /\ resultado.tipo = "ProfesorNotFoundError"
              /\ resultado.documento = <<solicitud.documento>>
        /\ \A p \in solicitud.periodo :
              (PeriodoValido(p) /\ DelProfesor # {} /\ DelPeriodo(p) = {}) =>
                  /\ resultado.tipo = "ProfesorNotFoundError"
                  /\ resultado.documento # <<solicitud.documento>>
                  /\ resultado.documento[1] = solicitud.documento
                  /\ TerminaEn(resultado.documento, p)

\* the request of a period in which the teacher, who has evaluations, has none
C6_Testigo ==
    /\ solicitud.caso = "promedios"
    /\ resultado.tipo = "ProfesorNotFoundError"
    /\ DelProfesor # {}
    /\ \E p \in solicitud.periodo : PeriodoValido(p) /\ DelPeriodo(p) = {}

(***************************************************************************)
(* C7. In the Improvement Plan an entry stands for a category other than   *)
(* Comments whose flat mean, over every answered rating of the category in *)
(* the evaluations the engine works on, is strictly below 4.0, and its     *)
(* promedio_categoria is that flat mean; and every category with a flat    *)
(* mean strictly below 4.0 that has a question to recommend on has an      *)
(* entry. A category with a flat mean of 4.0 or more has none.             *)
(***************************************************************************)
C7_MediaPlanaDeCategoria ==
    RespondeMejoras =>
        LET lista == resultado.categorias_a_mejorar
        IN  /\ \A k \in DOMAIN lista :
                  \E c \in NoComentarios :
                      /\ lista[k].categoria = CategoriaValue[c]
                      /\ Baja(RatingsDeCategoria(PasanMejoras, c))
                      /\ Igual(lista[k].promedio_categoria,
                               MediaPlana(RatingsDeCategoria(PasanMejoras, c)))
            /\ \A c \in NoComentarios :
                  (/\ Baja(RatingsDeCategoria(PasanMejoras, c))
                   /\ \E q \in PreguntasDe(c) : Baja(RatingsDePregunta(PasanMejoras, q)))
                      => \E k \in DOMAIN lista : lista[k].categoria = CategoriaValue[c]

\* a plan entry for a category whose flat mean is below 4.0 while the mean of
\* its per-evaluation means is not
C7_Testigo ==
    /\ RespondeMejoras
    /\ \E k \in DOMAIN resultado.categorias_a_mejorar :
          LET c == CategoriaDeEtiqueta(resultado.categorias_a_mejorar[k].categoria)
              I == {i \in PasanMejoras : PuntuadasEn(i, c) # {}}
          IN  ~Menor(MediaFrac([i \in I |-> MediaDe(PuntuadasEn(i, c))], I), CuatroPuntoCero)

(***************************************************************************)
(* C8. In an entry of the Improvement Plan, a question of the category     *)
(* with an answered rating has a recommendation if and only if the flat    *)
(* mean of its answered ratings, over the evaluations the engine works on, *)
(* is strictly below 4.0; a recommendation is about a question of the      *)
(* category, one per question, and reports that flat mean.                 *)
(***************************************************************************)
C8_PreguntasBajas ==
    RespondeMejoras =>
        \A k \in DOMAIN resultado.categorias_a_mejorar :
            LET c == CategoriaDeEtiqueta(resultado.categorias_a_mejorar[k].categoria)
                recs == resultado.categorias_a_mejorar[k].recomendaciones
            IN  /\ \A q \in PreguntasDe(c) :
                      (\E r \in DOMAIN recs : recs[r].codigo_pregunta = q)
                          <=> Baja(RatingsDePregunta(PasanMejoras, q))
                /\ \A r \in DOMAIN recs :
                      /\ recs[r].codigo_pregunta \in PreguntasDe(c)
                      /\ Igual(recs[r].calificacion_promedio,
                               MediaPlana(RatingsDePregunta(PasanMejoras, recs[r].codigo_pregunta)))
                /\ \A r1, r2 \in DOMAIN recs :
                      recs[r1].codigo_pregunta = recs[r2].codigo_pregunta => r1 = r2

\* a plan entry for a category one of whose questions averages exactly 4.0
\* and has no recommendation
C8_Testigo ==
    /\ RespondeMejoras
    /\ \E k \in DOMAIN resultado.categorias_a_mejorar :
          LET c == CategoriaDeEtiqueta(resultado.categorias_a_mejorar[k].categoria)
              recs == resultado.categorias_a_mejorar[k].recomendaciones
          IN  \E q \in PreguntasDe(c) :
                  /\ RatingsDePregunta(PasanMejoras, q) # {}
                  /\ Igual(MediaPlana(RatingsDePregunta(PasanMejoras, q)), CuatroPuntoCero)
                  /\ \A r \in DOMAIN recs : recs[r].codigo_pregunta # q

MismaLetra(a, b) == LowerChar(a) = LowerChar(b)

\* keyword occurs in texto, letter case apart
Aparece(keyword, texto) ==
    \E i \in 0..(Len(texto) - Len(keyword)) :
        \A j \in 1..Len(keyword) : MismaLetra(texto[i + j], keyword[j])

EntradasDe(etiqueta) ==
    {i \in DOMAIN RECOMENDACIONES : RECOMENDACIONES[i].categoria = etiqueta}

\* the positions of the keywords of entry i that occur in texto
Halladas(i, texto) ==
    {k \in DOMAIN RECOMENDACIONES[i].keywords :
        Aparece(RECOMENDACIONES[i].keywords[k].keyword, texto)}

C10_TextoDeRecomendacion ==
    resultado.tipo = "recomendacion" =>
        /\ EntradasDe(solicitud.categoria) = {} =>
              resultado.recomendacion = RECOMENDACION_GENERICA
        /\ \A i \in EntradasDe(solicitud.categoria) :
              LET H == Halladas(i, solicitud.texto_pregunta)
              IN  /\ H = {} => resultado.recomendacion = RECOMENDACIONES[i].default
                  /\ \A k \in H :
                        (\A l \in H : k <= l) =>
                            resultado.recomendacion = RECOMENDACIONES[i].keywords[k].recomendacion

\* a text in which two keywords of the entry occur, the first of them in
\* another letter case only
C10_Testigo ==
    /\ resultado.tipo = "recomendacion"
    /\ \E i \in EntradasDe(solicitud.categoria) :
          LET H == Halladas(i, solicitud.texto_pregunta)
          IN  /\ Cardinality(H) >= 2
              /\ \E k \in H :
                    /\ \A l \in H : k <= l
                    /\ ~Contiene(solicitud.texto_pregunta, RECOMENDACIONES[i].keywords[k].keyword)

(***************************************************************************)
(* C11. In every entry of the Improvement Plan the recommendations stand   *)
(* in non-decreasing order of calificacion_promedio, the worst question    *)
(* first, and no question code stands twice in the list of an entry.       *)
(***************************************************************************)
C11_RecomendacionesOrdenadas ==
    RespondeMejoras =>
        \A k \in DOMAIN resultado.categorias_a_mejorar :
            LET recs == resultado.categorias_a_mejorar[k].recomendaciones
            IN  \A r1, r2 \in DOMAIN recs :
                    r1 < r2 =>
                        /\ ~Menor(recs[r2].calificacion_promedio, recs[r1].calificacion_promedio)
                        /\ recs[r1].codigo_pregunta # recs[r2].codigo_pregunta

\* an entry whose worst question is not the one the evaluations hold first
C11_Testigo ==
    /\ RespondeMejoras
    /\ \E k \in DOMAIN resultado.categorias_a_mejorar :
          LET recs == resultado.categorias_a_mejorar[k].recomendaciones
          IN  /\ Len(recs) = 2
              /\ Menor(recs[1].calificacion_promedio, recs[2].calificacion_promedio)
              /\ recs[1].codigo_pregunta = "P149"
              /\ recs[2].codigo_pregunta = "P147"

(***************************************************************************)
(* C12. For the same request on the same repository the Recommendation     *)
(* Engine ends with ProfesorNotFoundError exactly when the Average         *)
(* Calculator does, and with the same content: the document id alone when  *)
(* the teacher has no evaluation, the document id with the period when the *)
(* period filter leaves none.                                              *)
(***************************************************************************)
C12_MismoErrorQuePromedios ==
    solicitud.caso = "mejoras" =>
        LET promedios == CalcularPromedioProfesor_execute(evaluaciones, Peticion)
        IN  /\ resultado.tipo = "ProfesorNotFoundError"
                  <=> promedios.tipo = "ProfesorNotFoundError"
            /\ resultado.tipo = "ProfesorNotFoundError" =>
                  /\ resultado.documento = promedios.documento
                  /\ DelProfesor = {} => resultado.documento = <<solicitud.documento>>
                  /\ DelProfesor # {} =>
                        /\ resultado.documento[1] = solicitud.documento
                        /\ \A p \in solicitud.periodo : TerminaEn(resultado.documento, p)

\* the Recommendation Engine refuses a well-formed period in which the
\* teacher, who has evaluations, has none
C12_Testigo ==
    /\ solicitud.caso = "mejoras"
    /\ resultado.tipo = "ProfesorNotFoundError"
    /\ DelProfesor # {}
    /\ \E p \in solicitud.periodo : PeriodoValido(p) /\ DelPeriodo(p) = {}

(***************************************************************************)
(* C13. At /promedios, /detalle, /mejoras and /export-pdf a request that   *)
(* fails validation (a period string that is not of the shape YYYY-S) and  *)
(* a request that ends with ProfesorNotFoundError (a teacher without       *)
(* evaluations, or without evaluations in the period) are answered with    *)
(* status 404; status 500 answers only another, unexpected failure, which  *)
(* here is a failure of the PDF generator.                                 *)
(***************************************************************************)
PeriodoMalFormado == \E p \in solicitud.periodo : p # <<>> /\ ~PeriodoValido(p)

SinEvaluacionesQueMostrar ==
    \/ DelProfesor = {}
    \/ \E p \in solicitud.periodo : p # <<>> /\ DelPeriodo(p) = {}

C13_EstadosHTTP ==
    resultado.tipo = "HTTP" =>
        /\ (PeriodoMalFormado \/ SinEvaluacionesQueMostrar) => resultado.status_code = 404
        /\ resultado.status_code = 500 =>
              /\ solicitud.caso = "GET /export-pdf"
              /\ solicitud.pdf_file.tipo = "Exception"

\* /promedios answers a period string of another shape, for a teacher with
\* evaluations, with status 500
C13_Testigo ==
    /\ resultado.tipo = "HTTP"
    /\ solicitud.caso = "GET /promedios"
    /\ PeriodoMalFormado
    /\ DelProfesor # {}
    /\ resultado.status_code = 500

(***************************************************************************)
(* C19. In every response of the average calculator the per-category list  *)
(* is strictly ascending by the full label of the category (Python's str   *)
(* order), which is not the order of the short labels, and the per-actor   *)
(* list is strictly ascending by the tipo_formulario label; so no category *)
(* and no actor appears twice.                                             *)
(***************************************************************************)
C19_ListasOrdenadas ==
    RespondePromedios =>
        /\ LET lista == resultado.promedios_por_categoria
           IN  \A k, l \in DOMAIN lista :
                   k < l => IndiceEn(EtiquetasOrdenadas, lista[k].categoria)
                                < IndiceEn(EtiquetasOrdenadas, lista[l].categoria)
        /\ LET lista == resultado.promedios_por_actor
           IN  \A k, l \in DOMAIN lista :
                   k < l => IndiceEn(ActoresOrdenados, lista[k].actor)
                                < IndiceEn(ActoresOrdenados, lista[l].actor)

\* two categories whose short labels are in the other order, and two actors
C19_Testigo ==
    /\ RespondePromedios
    /\ Len(resultado.promedios_por_categoria) = 2
    /\ resultado.promedios_por_categoria[1].categoria_corta = "Personal"
    /\ resultado.promedios_por_categoria[2].categoria_corta = "Conducción"
    /\ Len(resultado.promedios_por_actor) = 2

(***************************************************************************)
(* C20. Calificacion(v) succeeds exactly when 1.0 <= v <= 5.0, both bounds *)
(* included; otherwise it ends with InvalidCalificacionError. For every    *)
(* Calificacion built, es_aprobatoria() is true exactly when its value is  *)
(* at least 3.0.                                                           *)
(***************************************************************************)
C20_RangoDeCalificacion ==
    /\ solicitud.caso = "Calificacion" =>
          /\ resultado.tipo = "Calificacion" <=> (10 <= solicitud.valor /\ solicitud.valor <= 50)
          /\ resultado.tipo = "Calificacion" => resultado.valor = solicitud.valor
          /\ resultado.tipo # "Calificacion" =>
                /\ resultado.tipo = "InvalidCalificacionError"
                /\ resultado.valor = solicitud.valor
    /\ solicitud.caso = "es_aprobatoria" =>
          /\ 10 <= solicitud.calificacion.valor /\ solicitud.calificacion.valor <= 50
          /\ resultado.valor <=> solicitud.calificacion.valor >= 30

\* the upper bound 5.0 was accepted and is a passing rating
C20_Testigo ==
    /\ solicitud.caso = "es_aprobatoria"
    /\ solicitud.calificacion.valor = 50
    /\ resultado.valor = TRUE

(***************************************************************************)
(* Vocabulary of the repository properties.                                *)
(***************************************************************************)
\* the evaluations of a document, in the order they were loaded
CargadasDe(documento) ==
    SelectSeq(evaluaciones, LAMBDA e : e.profesor_documento = documento)

Permutaciones(s) ==
    {[i \in DOMAIN s |-> s[f[i]]] :
        f \in {g \in [DOMAIN s -> DOMAIN s] : \A i, j \in DOMAIN s : g[i] = g[j] => i = j}}

\* the same elements the same number of times
MismoContenido(a, b) ==
    /\ Len(a) = Len(b)
    /\ \A x \in Range(a) \cup Range(b) :
          Cardinality({i \in DOMAIN a : a[i] = x}) = Cardinality({i \in DOMAIN b : b[i] = x})

AnioDe(p) ==
    1000 * ValorDeDigito[p[1]] + 100 * ValorDeDigito[p[2]]
        + 10 * ValorDeDigito[p[3]] + ValorDeDigito[p[4]]

TerminoDe(p) == ValorDeDigito[p[6]]

Precede(p, q) ==
    AnioDe(p) < AnioDe(q) \/ (AnioDe(p) = AnioDe(q) /\ TerminoDe(p) < TerminoDe(q))

(***************************************************************************)
(* C15. get_profesores returns one Profesor for each distinct              *)
(* profesor_documento of the loaded evaluations and no other; the          *)
(* evaluation list of each Profesor is the sequence of all loaded          *)
(* evaluations of that document, in load order (what find_by_profesor      *)
(* returns), and its name is the profesor_nombre of the first of them.     *)
(***************************************************************************)
C15_UnProfesorPorDocumento ==
    solicitud.caso = "get_profesores" =>
        LET lista == resultado.valor
        IN  /\ {lista[k].documento : k \in DOMAIN lista}
                  = {e.profesor_documento : e \in Range(evaluaciones)}
            /\ \A k, l \in DOMAIN lista : lista[k].documento = lista[l].documento => k = l
            /\ \A k \in DOMAIN lista :
                  /\ lista[k].evaluaciones = CargadasDe(lista[k].documento)
                  /\ lista[k].evaluaciones
                        = EvaluacionRepository_find_by_profesor(
                              memoria.evaluacion_repo, lista[k].documento).valor
                  /\ lista[k].nombre_completo = CargadasDe(lista[k].documento)[1].profesor_nombre

\* a teacher with two loaded rows of the same PEGE_ID is listed with one
C15_Testigo ==
    /\ solicitud.caso = "get_profesores"
    /\ Len(CargadasDe("123456")) = 2
    /\ evaluaciones[1].id = evaluaciones[2].id
    /\ Len(resultado.valor) = 1
    /\ Len(resultado.valor[1].evaluaciones) = 1

(***************************************************************************)
(* C16. A repository built from any permutation of the loaded evaluations  *)
(* answers as this one: find_by_id returns the same evaluation, the lists  *)
(* of find_by_profesor, find_by_periodo and find_by_tipo_formulario hold   *)
(* the same evaluations, and get_profesores and get_periodos_disponibles   *)
(* return the same lists.                                                  *)
(***************************************************************************)
C16_IndependienteDelOrden ==
    \A otra \in Permutaciones(evaluaciones) :
        LET repo == PandasEvaluacionRepository(otra)
        IN  /\ solicitud.caso = "find_by_id" =>
                  resultado = find_by_id(repo, solicitud.id)
            /\ solicitud.caso = "find_by_profesor" =>
                  MismoContenido(resultado.valor,
                      EvaluacionRepository_find_by_profesor(repo, solicitud.documento).valor)
            /\ solicitud.caso = "find_by_periodo" =>
                  MismoContenido(resultado.valor, find_by_periodo(repo, solicitud.periodo).valor)
            /\ solicitud.caso = "find_by_tipo_formulario" =>
                  MismoContenido(resultado.valor,
                      find_by_tipo_formulario(repo, solicitud.tipo).valor)
            /\ solicitud.caso = "get_profesores" =>
                  resultado.valor = get_profesores(repo).valor
            /\ solicitud.caso = "get_periodos_disponibles" =>
                  resultado.valor = get_periodos_disponibles(repo).valor

\* two evaluations with distinct ids, of two teachers: the list of teachers
\* follows the load order
C16_Testigo ==
    /\ solicitud.caso = "get_profesores"
    /\ Len(evaluaciones) = 2
    /\ evaluaciones[1].id # evaluaciones[2].id
    /\ evaluaciones[1].profesor_documento # evaluaciones[2].profesor_documento
    /\ resultado.valor
          # get_profesores(PandasEvaluacionRepository(<<evaluaciones[2], evaluaciones[1]>>)).valor

(***************************************************************************)
(* C17. The lists the queries of both repositories return are snapshots:   *)
(* whatever appends, removals and reorderings were applied to returned     *)
(* lists, every query answers as the repositories built from the loaded    *)
(* data answer.                                                            *)
(***************************************************************************)
AlCargar == Repositorios(evaluaciones, Catalogo)

C17_ConsultasSonInstantaneas ==
    LET ahora == memoria.evaluacion_repo
        antes == AlCargar.evaluacion_repo
        p_ahora == memoria.pregunta_repo
        p_antes == AlCargar.pregunta_repo
    IN  /\ EvaluacionRepository_find_all(ahora).valor = EvaluacionRepository_find_all(antes).valor
        /\ \A d \in Documentos \cup {"000000"} :
              EvaluacionRepository_find_by_profesor(ahora, d).valor
                  = EvaluacionRepository_find_by_profesor(antes, d).valor
        /\ \A p \in PeriodosCargados :
              find_by_periodo(ahora, p).valor = find_by_periodo(antes, p).valor
        /\ \A d \in Documentos : \A p \in PeriodosCargados :
              find_by_profesor_and_periodo(ahora, d, p).valor
                  = find_by_profesor_and_periodo(antes, d, p).valor
        /\ \A t \in TiposFormulario :
              find_by_tipo_formulario(ahora, t).valor = find_by_tipo_formulario(antes, t).valor
        /\ get_profesores(ahora).valor = get_profesores(antes).valor
        /\ get_periodos_disponibles(ahora).valor = get_periodos_disponibles(antes).valor
        /\ get_tipos_formulario(ahora).valor = get_tipos_formulario(antes).valor
        /\ PreguntaRepository_find_all(p_ahora).valor = PreguntaRepository_find_all(p_antes).valor
        /\ \A c \in Categoria :
              find_by_categoria(p_ahora, c).valor = find_by_categoria(p_antes, c).valor
        /\ get_categorias(p_ahora).valor = get_categorias(p_antes).valor

\* the list find_by_profesor returned was given a third element, and the
\* repository still holds two evaluations of that teacher
C17_Testigo ==
    /\ solicitud.caso = "mutar"
    /\ solicitud.de.caso = "find_by_profesor"
    /\ Len(resultado.valor) = 3
    /\ Len(CargadasDe(solicitud.de.documento)) = 2
    /\ Len(EvaluacionRepository_find_by_profesor(
               memoria.evaluacion_repo, solicitud.de.documento).valor) = 2

(***************************************************************************)
(* C18. get_periodos_disponibles returns each distinct period of the       *)
(* loaded evaluations once, strictly ascending by (year, term), whatever   *)
(* the load order; Periodo.__lt__ is a strict total order on the periods,  *)
(* and 2024-2 precedes 2025-1.                                             *)
(***************************************************************************)
C18_PeriodosAscendentes ==
    solicitud.caso = "get_periodos_disponibles" =>
        /\ LET lista == resultado.valor
           IN  /\ Range(lista) = {e.periodo : e \in Range(evaluaciones)}
               /\ \A k, l \in DOMAIN lista : k < l => Precede(lista[k], lista[l])
        /\ \A p, q \in PeriodosCargados :
              /\ Periodo__lt__(p, q) <=> Precede(p, q)
              /\ ~(Periodo__lt__(p, q) /\ Periodo__lt__(q, p))
              /\ p # q => (Periodo__lt__(p, q) \/ Periodo__lt__(q, p))
              /\ \A r \in PeriodosCargados :
                    (Periodo__lt__(p, q) /\ Periodo__lt__(q, r)) => Periodo__lt__(p, r)
        /\ Periodo__lt__(<<"2","0","2","4","-","2">>, <<"2","0","2","5","-","1">>)

\* 2025-1 was loaded before 2024-2 and is returned after it
C18_Testigo ==
    /\ solicitud.caso = "get_periodos_disponibles"
    /\ Len(evaluaciones) = 2
    /\ evaluaciones[1].periodo = <<"2","0","2","5","-","1">>
    /\ evaluaciones[2].periodo = <<"2","0","2","4","-","2">>
    /\ resultado.valor = <<evaluaciones[2].periodo, evaluaciones[1].periodo>>

(***************************************************************************)
(* C14. Over every interleaving of calls to initialize_repositories,       *)
(* get_evaluacion_repository and get_pregunta_repository, the data is      *)
(* loaded and the pair of repositories built at most once in the process;  *)
(* and once both singletons are set, no step replaces either of them.      *)
(***************************************************************************)
C14_UnaSolaCarga ==
    /\ [](cargas <= 1)
    /\ [][(_evaluacion_repo # {} /\ _pregunta_repo # {}) =>
              (_evaluacion_repo' = _evaluacion_repo /\ _pregunta_repo' = _pregunta_repo)]_vars

\* the data was loaded twice, and the singleton set from the first load was
\* replaced by the repository of the second
C14_Testigo ==
    /\ cargas = 2
    /\ _evaluacion_repo = {2}
    /\ _pregunta_repo = {1}

(***************************************************************************)
(* C29. In every response of the average calculator: promedio_general is   *)
(* in [0, 5]; every per-category and per-actor average is in [1, 5]; every *)
(* count of an entry is at least 1 and at most total_evaluaciones; and the *)
(* per-actor counts add up to the number of selected evaluations with at   *)
(* least one answered rating outside Comments.                             *)
(***************************************************************************)
\* a <= p <= b, a and b in tenths
Entre(p, a, b) == a * p[2] <= p[1] /\ p[1] <= b * p[2]

C29_RangosYConteos ==
    RespondePromedios =>
        LET cats == resultado.promedios_por_categoria
            acts == resultado.promedios_por_actor
        IN  /\ Entre(resultado.promedio_general, 0, 50)
            /\ \A k \in DOMAIN cats :
                  /\ Entre(cats[k].promedio, 10, 50)
                  /\ 1 <= cats[k].total_evaluaciones
                  /\ cats[k].total_evaluaciones <= resultado.total_evaluaciones
            /\ \A k \in DOMAIN acts :
                  /\ Entre(acts[k].promedio, 10, 50)
                  /\ 1 <= acts[k].total_evaluaciones
                  /\ acts[k].total_evaluaciones <= resultado.total_evaluaciones
            /\ Suma([k \in DOMAIN acts |-> acts[k].total_evaluaciones], DOMAIN acts)
                  = Cardinality({i \in Pasan : Puntuadas(i) # {}})

\* two selected evaluations, one of them without any rating outside Comments:
\* it is in total_evaluaciones and in no actor count; the other reaches 5.0
C29_Testigo ==
    /\ RespondePromedios
    /\ resultado.total_evaluaciones = 2
    /\ Len(resultado.promedios_por_actor) = 1
    /\ resultado.promedios_por_actor[1].total_evaluaciones = 1
    /\ Igual(resultado.promedios_por_actor[1].promedio, <<50, 1>>)
    /\ Cardinality({i \in Pasan : Puntuadas(i) = {}}) = 1

(***************************************************************************)
(* C24. With one category per question code, every category outside        *)
(* Comments whose flat mean is strictly below 4.0 has an entry in the      *)
(* Improvement Plan with at least one recommendation: such a category has  *)
(* a question whose flat mean is strictly below 4.0.                       *)
(***************************************************************************)
C24_CategoriaBajaEnElPlan ==
    RespondeMejoras =>
        \A c \in NoComentarios :
            Baja(RatingsDeCategoria(PasanMejoras, c)) =>
                /\ \E q \in PreguntasDe(c) : Baja(RatingsDePregunta(PasanMejoras, q))
                /\ \E k \in DOMAIN resultado.categorias_a_mejorar :
                      /\ resultado.categorias_a_mejorar[k].categoria = CategoriaValue[c]
                      /\ resultado.categorias_a_mejorar[k].recomendaciones # <<>>

\* a category below 4.0 with a question at 5.0 and one below 4.0: its entry
\* holds the one recommendation
C24_Testigo ==
    /\ RespondeMejoras
    /\ \E c \in NoComentarios :
          /\ Baja(RatingsDeCategoria(PasanMejoras, c))
          /\ \E q \in PreguntasDe(c) :
                /\ RatingsDePregunta(PasanMejoras, q) # {}
                /\ Igual(MediaPlana(RatingsDePregunta(PasanMejoras, q)), <<50, 1>>)
          /\ \E k \in DOMAIN resultado.categorias_a_mejorar :
                /\ resultado.categorias_a_mejorar[k].categoria = CategoriaValue[c]
                /\ Len(resultado.categorias_a_mejorar[k].recomendaciones) = 1

(***************************************************************************)
(* C23. After any sequence of agregar_evaluacion calls the list of the     *)
(* Profesor holds no two evaluations with the same id; it is the sequence  *)
(* of the evaluations given, each id kept where and as it was first        *)
(* inserted; and a call with an id already present left the list as it was.*)
(***************************************************************************)
\* the positions of h whose id occurs at no earlier position
Primeras(h) == {i \in DOMAIN h : \A j \in 1..(i - 1) : h[j].id # h[i].id}

\* the elements of h at the positions Primeras(h), in order
PrimerasPorId(h) ==
    [k \in 1..Cardinality(Primeras(h)) |->
        h[CHOOSE i \in Primeras(h) : Cardinality({j \in Primeras(h) : j <= i}) = k]]

C23_SinIdsRepetidos ==
    solicitud.caso = "Profesor" =>
        LET h == solicitud.llamadas
            lista == resultado.evaluaciones
        IN  /\ \A i, j \in DOMAIN lista : lista[i].id = lista[j].id => i = j
            /\ lista = PrimerasPorId(h)
            /\ (h # <<>> /\ Len(h) \notin Primeras(h)) =>
                  lista = PrimerasPorId(SubSeq(h, 1, Len(h) - 1))

\* the third call gave an evaluation with the id of the first and another
\* period: the list kept the first and the second
C23_Testigo ==
    /\ solicitud.caso = "Profesor"
    /\ Len(solicitud.llamadas) = 3
    /\ solicitud.llamadas[3].id = solicitud.llamadas[1].id
    /\ solicitud.llamadas[3] # solicitud.llamadas[1]
    /\ solicitud.llamadas[2].id # solicitud.llamadas[1].id
    /\ resultado.evaluaciones = <<solicitud.llamadas[1], solicitud.llamadas[2]>>


(***************************************************************************)
(* C30. The indexes partition the loaded collection: every evaluation of   *)
(* find_all is in the teacher bucket, the period bucket and the            *)
(* evaluator-type bucket of its own document, period and label and in no   *)
(* other; the bucket sizes over get_periodos_disponibles, over             *)
(* get_tipos_formulario and over the teachers each sum to the size of      *)
(* find_all; and find_by_id(e.id) returns e for every loaded evaluation e. *)
(***************************************************************************)
Tamanos(claves, cubos) == Suma([c \in claves |-> Len(cubos[c])], claves)

C30_ParticionDeLosIndices ==
    LET repo     == memoria.evaluacion_repo
        todas    == EvaluacionRepository_find_all(repo).valor
        periodos == Range(get_periodos_disponibles(repo).valor)
        tipos    == Range(get_tipos_formulario(repo).valor)
        docs     == {p.documento : p \in Range(get_profesores(repo).valor)}
        porDoc   == [d \in docs |-> EvaluacionRepository_find_by_profesor(repo, d).valor]
        porPer   == [p \in periodos |-> find_by_periodo(repo, p).valor]
        porTipo  == [t \in tipos |-> find_by_tipo_formulario(repo, t).valor]
    IN  /\ solicitud.caso = "find_all" =>
              /\ resultado.valor = todas
              /\ \A e \in Range(todas) :
                    /\ {d \in docs : e \in Range(porDoc[d])} = {e.profesor_documento}
                    /\ {p \in periodos : e \in Range(porPer[p])} = {e.periodo}
                    /\ {t \in tipos : e \in Range(porTipo[t])} = {e.tipo_formulario}
              /\ Tamanos(docs, porDoc) = Len(todas)
              /\ Tamanos(periodos, porPer) = Len(todas)
              /\ Tamanos(tipos, porTipo) = Len(todas)
        /\ solicitud.caso = "find_by_id" =>
              \A e \in Range(evaluaciones) :
                  e.id = solicitud.id => resultado.valor = {e}

\* two loaded rows share a PEGE_ID and differ: find_by_id answers with the
\* second one
C30_Testigo ==
    /\ solicitud.caso = "find_by_id"
    /\ Len(evaluaciones) = 2
    /\ evaluaciones[1].id = solicitud.id
    /\ evaluaciones[2].id = solicitud.id
    /\ evaluaciones[1] # evaluaciones[2]
    /\ resultado.valor = {evaluaciones[2]}

\* the partition part alone, which the indexes satisfy
C30_SoloParticion ==
    solicitud.caso = "find_by_id" \/ C30_ParticionDeLosIndices


(***************************************************************************)
(* C27. For a teacher document and an optional period, the response of the *)
(* Average Calculator, of the detail use case and of the Recommendation    *)
(* Engine carries the nombre_completo get_profesores reports for that      *)
(* document, the profesor_nombre of the first loaded evaluation of the     *)
(* document, whatever names the teacher's evaluations carry.               *)
(***************************************************************************)
NombreSegunProfesores(documento) ==
    {p.nombre_completo : p \in {q \in Range(get_profesores(memoria.evaluacion_repo).valor) :
                                    q.documento = documento}}

C27_ElMismoNombre ==
    /\ solicitud.caso \in {"promedios", "detalle", "mejoras"}
          /\ resultado.tipo \in {"PromedioProfesorResponse", "DetalleEvaluacionResponse",
                                 "PropuestaMejoraResponse"}
       => /\ NombreSegunProfesores(solicitud.documento) = {resultado.nombre_completo}
          /\ resultado.nombre_completo = CargadasDe(solicitud.documento)[1].profesor_nombre
    /\ solicitud.caso = "get_profesores" =>
          \A p \in Range(resultado.valor) :
              p.nombre_completo = CargadasDe(p.documento)[1].profesor_nombre

\* the teacher's first row is of 2025-1 and is named "Juan Pérez", the second
\* is of 2025-2 and is named "Juan Perez"; the averages of 2025-2 carry the
\* second name
C27_Testigo ==
    /\ solicitud.caso = "promedios"
    /\ solicitud.periodo = {<<"2","0","2","5","-","2">>}
    /\ Len(CargadasDe("123456")) = 2
    /\ CargadasDe("123456")[1].profesor_nombre = "Juan Pérez"
    /\ CargadasDe("123456")[1].periodo = <<"2","0","2","5","-","1">>
    /\ CargadasDe("123456")[2].profesor_nombre = "Juan Perez"
    /\ resultado.tipo = "PromedioProfesorResponse"
    /\ resultado.nombre_completo = "Juan Perez"
    /\ NombreSegunProfesores("123456") = {"Juan Pérez"}

\* the detail use case and the Recommendation Engine alone, which take the
\* name before they filter
C27_DetalleYMejoras ==
    solicitud.caso = "promedios" \/ C27_ElMismoNombre


(***************************************************************************)
(* C28. GET /profesores/export-all-pdfs answers 404 "No hay profesores     *)
(* para exportar" when the repository holds no teacher; when it holds      *)
(* teachers it answers 200 with a ZIP that has one entry for each teacher  *)
(* whose report was built, in the order of get_profesores, and none for a  *)
(* teacher whose report failed (no evaluation in the requested period,     *)
(* a malformed period, an exception of the PDF library).                   *)
(***************************************************************************)
FallaElReporte(documento) ==
    \/ EsExcepcion(CalcularPromedioProfesor_execute(
           evaluaciones, [documento |-> documento, periodo |-> solicitud.periodo]))
    \/ EsExcepcion(ObtenerPropuestaMejora_execute(
           evaluaciones, [documento |-> documento, periodo |-> solicitud.periodo]))
    \/ EsExcepcion(solicitud.pdfs[documento])

C28_ConProfesores ==
    solicitud.caso = "GET /export-all-pdfs" /\ evaluaciones # <<>> =>
        /\ resultado.status_code = 200
        /\ resultado.cuerpo.tipo = "ZIP"
        /\ Map(resultado.cuerpo.archivos, LAMBDA a : a.documento)
              = SelectSeq(Map(get_profesores(memoria.evaluacion_repo).valor,
                              LAMBDA p : p.documento),
                          LAMBDA d : ~FallaElReporte(d))

C28_ExportarTodos ==
    /\ solicitud.caso = "GET /export-all-pdfs" /\ evaluaciones = <<>> =>
          resultado = HTTPException(404, <<"No hay profesores para exportar">>)
    /\ C28_ConProfesores

\* nothing is loaded and the endpoint answers 500
C28_Testigo ==
    /\ solicitud.caso = "GET /export-all-pdfs"
    /\ evaluaciones = <<>>
    /\ get_profesores(memoria.evaluacion_repo).valor = <<>>
    /\ resultado.status_code = 500

\* two teachers, one without evaluations in the requested period: the ZIP
\* holds the report of the other
C28_TestigoZip ==
    /\ solicitud.caso = "GET /export-all-pdfs"
    /\ Len(get_profesores(memoria.evaluacion_repo).valor) = 2
    /\ FallaElReporte("123456")
    /\ ~EsExcepcion(solicitud.pdfs["123456"])
    /\ PeriodoValido(ValorDe(solicitud.periodo))
    /\ resultado.status_code = 200
    /\ Map(resultado.cuerpo.archivos, LAMBDA a : a.documento) = <<"999999">>


(***************************************************************************)
(* C22. However many times execute of the Average Calculator is called     *)
(* with one request on one repository, every call returns what the first   *)
(* returned, and the repositories (the collection, the indexes and the     *)
(* answer mapping of every evaluation in them) stay as they were built     *)
(* from the loaded data.                                                   *)
(***************************************************************************)
C22_IdempotenteYSoloLectura ==
    /\ memoria = Repositorios(evaluaciones, Catalogo)
    /\ solicitud.caso = "execute" =>
          /\ resultado = solicitud.primera
          /\ resultado = CalcularPromedioProfesor_execute(
                 evaluaciones, [documento |-> solicitud.documento,
                                periodo |-> solicitud.periodo])

\* the third call with a period one of the teacher's two evaluations is of
C22_Testigo ==
    /\ solicitud.caso = "execute"
    /\ solicitud.llamadas = 3
    /\ solicitud.periodo = {<<"2","0","2","5","-","2">>}
    /\ Len(CargadasDe("123456")) = 2
    /\ resultado.tipo = "PromedioProfesorResponse"
    /\ resultado.total_evaluaciones = 1


(***************************************************************************)
(* C21. load_all returns the evaluations of the rows that parse, in file   *)
(* and row order, leaving out the rows that do not; it ends with an error  *)
(* exactly when no evaluation file is found or no row of any file parses;  *)
(* and the evaluation list it returns is never empty.                      *)
(***************************************************************************)
\* the row has a well-formed period and no rating out of range
FilaUtil(fila) ==
    /\ PeriodoValido(strip(fila.PERIODO))
    /\ fila.P148.tipo = "numero" => MIN_VALOR <= fila.P148.valor /\ fila.P148.valor <= MAX_VALOR

\* the usable rows of the directory, in order
RECURSIVE FilasUtiles(_)
FilasUtiles(directorio) ==
    IF directorio = <<>> THEN <<>>
    ELSE (IF Head(directorio).tipo = "csv"
          THEN SelectSeq(Head(directorio).filas, FilaUtil)
          ELSE <<>>) \o FilasUtiles(Tail(directorio))

C21_FilasQueFallan ==
    solicitud.caso = "load_all" /\ resultado.tipo = "tuple" =>
        /\ Len(resultado.evaluaciones) = Len(FilasUtiles(solicitud.directorio))
        /\ \A i \in DOMAIN resultado.evaluaciones :
              LET e == resultado.evaluaciones[i]
                  fila == FilasUtiles(solicitud.directorio)[i]
              IN  /\ e.id = fila.PEGE_ID
                  /\ e.periodo = strip(fila.PERIODO)
                  /\ e.respuestas[1].cal
                        = IF fila.P148.tipo = "numero" THEN {fila.P148.valor} ELSE {}

C21_CargaDeFilas ==
    solicitud.caso = "load_all" =>
        /\ C21_FilasQueFallan
        /\ resultado.tipo = "DataParsingError"
              <=> (solicitud.directorio = <<>> \/ FilasUtiles(solicitud.directorio) = <<>>)
        /\ resultado.tipo = "tuple" => resultado.evaluaciones # <<>>

\* one file is found and its only row has the period 2025-3: load_all
\* returns an empty list of evaluations
C21_Testigo ==
    /\ solicitud.caso = "load_all"
    /\ Len(solicitud.directorio) = 1
    /\ solicitud.directorio[1].tipo = "csv"
    /\ Len(solicitud.directorio[1].filas) = 1
    /\ solicitud.directorio[1].filas[1].PERIODO = <<"2","0","2","5","-","3">>
    /\ resultado.tipo = "tuple"
    /\ resultado.evaluaciones = <<>>

\* a row with the rating 6.0 is dropped and the row after it is loaded
C21_TestigoFila ==
    /\ solicitud.caso = "load_all"
    /\ Len(solicitud.directorio) = 1
    /\ solicitud.directorio[1].tipo = "csv"
    /\ Len(solicitud.directorio[1].filas) = 2
    /\ solicitud.directorio[1].filas[1].P148 = [tipo |-> "numero", valor |-> 60]
    /\ FilaUtil(solicitud.directorio[1].filas[2])
    /\ resultado.tipo = "tuple"
    /\ Len(resultado.evaluaciones) = 1


(***************************************************************************)
(* C26. A load that fails inside initialize_repositories ends the call,    *)
(* and the provider call around it, with the DataParsingError and changes  *)
(* neither singleton; one singleton is set and the other unset only while  *)
(* a thread is between lines 51 and 52; a provider never returns an unset  *)
(* repository; and a provider called while its singleton is unset enters   *)
(* initialize_repositories, which runs the load while either is unset.     *)
(***************************************************************************)
FallaLaCarga(t) ==
    /\ hilos[t].pc = "linea48"
    /\ hilos'[t].devuelto.tipo = "DataParsingError"

C26_FalloDeLaCarga ==
    /\ [](\A t \in Hilos :
            /\ hilos[t].devuelto.tipo = "DataParsingError" => hilos[t].pc = "inactivo"
            /\ hilos[t].devuelto.tipo = "repo" => hilos[t].devuelto.valor # {})
    /\ []((_evaluacion_repo = {} <=> _pregunta_repo = {})
              \/ \E t \in Hilos : hilos[t].pc = "linea52")
    /\ [][\A t \in Hilos :
            /\ FallaLaCarga(t) =>
                  /\ _evaluacion_repo' = _evaluacion_repo
                  /\ _pregunta_repo' = _pregunta_repo
                  /\ hilos'[t].pc = "inactivo"
            /\ hilos[t].pc = "linea60" /\ _evaluacion_repo = {} /\ hilos'[t] # hilos[t]
                  => hilos'[t].pc = "linea36"
            /\ hilos[t].pc = "linea67" /\ _pregunta_repo = {} /\ hilos'[t] # hilos[t]
                  => hilos'[t].pc = "linea36"
            /\ hilos[t].pc = "linea36" /\ (_evaluacion_repo = {} \/ _pregunta_repo = {})
                  /\ hilos'[t] # hilos[t]
                  => hilos'[t].pc = "linea48"]_vars

\* the load of the first call failed and nothing is set; the second call of
\* the thread, a provider, is again at the load
C26_Testigo ==
    /\ cargas = 0
    /\ _evaluacion_repo = {}
    /\ _pregunta_repo = {}
    /\ hilos[1].llamadas = 2
    /\ hilos[1].llamada = "get_evaluacion_repository"
    /\ hilos[1].pc = "linea48"
    /\ hilos[2].devuelto.tipo = "DataParsingError"


(***************************************************************************)
(* C25. Whatever the interleaving of the provider calls with an            *)
(* initialize_repositories in progress, the use case a factory builds      *)
(* (get_detalle_evaluacion_use_case, get_propuesta_mejora_use_case) holds  *)
(* an evaluation repository and a question repository that are both set    *)
(* and were built from the same load.                                      *)
(***************************************************************************)
C25_NuncaSinRepositorio ==
    \A t \in Hilos :
        /\ solicitud[t].evaluacion_repo # Nada => solicitud[t].evaluacion_repo.valor # {}
        /\ solicitud[t].caso_de_uso.tipo \in Fabricas =>
              /\ solicitud[t].caso_de_uso._evaluacion_repo # {}
              /\ solicitud[t].caso_de_uso._pregunta_repo # {}

C25_ConstruidosAntesDeLeer ==
    /\ C25_NuncaSinRepositorio
    /\ \A t \in Hilos :
          solicitud[t].caso_de_uso.tipo \in Fabricas =>
              solicitud[t].caso_de_uso._evaluacion_repo = solicitud[t].caso_de_uso._pregunta_repo

\* a use case was built with the evaluation repository of the first load
\* and the question repository of the second
C25_Testigo ==
    \E t \in Hilos :
        /\ solicitud[t].caso_de_uso.tipo \in Fabricas
        /\ solicitud[t].caso_de_uso._evaluacion_repo = {1}
        /\ solicitud[t].caso_de_uso._pregunta_repo = {2}

====
